---------------------------- MODULE Spec2Model ----------------------------
(***************************************************************************)
(* PAM WebSerial Dashboard (src/src/PamWebSerialDashboard.jsx).            *)
(*                                                                         *)
(* The serial stream is framed into lines by LineBreakTransformer; every   *)
(* line goes through handleLine, which detects the CSV header, decodes     *)
(* rows into the `latest' snapshot and the per-sensor `series', and logs   *)
(* the line.  Two buttons (Assume Default Header, Set Header) replace the  *)
(* header at any time.                                                     *)
(*                                                                         *)
(* Text is modelled as a sequence of one-character strings, so that        *)
(* trimming, splitting and the regular expressions of the source are       *)
(* computed character by character.                                        *)
(*                                                                         *)
(* A handler runs to completion before the next one starts.  The updater   *)
(* functions it hands to setLatest, setSeries and setRawLog are applied in *)
(* the order they were queued, each to the result of the one before, so    *)
(* the variables latest, series and rawLog hold the state with every       *)
(* queued updater applied.                                                 *)
(*                                                                         *)
(* Specifications: Spec (lines and header buttons), SpecFramer (the line   *)
(* framer over every stream and chunking), SpecRows (rows with date, time  *)
(* and text fields), SpecReact (the renders of the component and the       *)
(* effect that copies csvHeader to csvHeaderRef) and SpecConn (one         *)
(* connection: the transport, readLoop and disconnect).                    *)
(***************************************************************************)
EXTENDS Integers, Sequences, FiniteSets, TLC

VARIABLES
  \* ---- LineBreakTransformer and the transport feeding it
  stream,        \* characters the transport has not delivered yet
  whole,         \* the whole stream of this connection (history)
  container,     \* LineBreakTransformer.container
  enqueued,      \* lines handed to controller.enqueue, in order
  closed,        \* the transport has ended and flush() has run
  \* ---- component state
  csvHeaderRef,  \* csvHeaderRef.current
  csvHeader,     \* useState csvHeader
  latest,        \* useState latest   (field name -> value)
  series,        \* useState series   (sensor key -> sequence of points)
  rawLog,        \* useState rawLog
  clock,         \* the wall clock read by Date.now()
  \* ---- history of the run
  lastOp,        \* the operation that ran last, its input and its outcome
  appended,      \* sensor key -> every point ever appended to its series
  steps,         \* number of operations run so far
  \* ---- React: what a render of the component sees
  queue,         \* updaters handed to the state setters, not yet rendered
  base,          \* the hook states the queued updaters are applied to
  view,          \* the hook states returned to the latest render
  effect,        \* the passive effect that copies csvHeader to the ref
  \* ---- the connection
  readerRef,     \* readerRef.current is not null
  reader,        \* state of the line stream behind readerRef
  readPos,       \* number of enqueued lines reader.read() has returned
  loop,          \* where readLoop is
  \* ---- connect() and disconnect()
  writerRef,     \* writerRef.current is not null
  portRef,       \* portRef.current is not null
  isConnected,   \* the isConnected state
  connectPc,     \* where the call of connect() is
  disconnectPc,  \* where each call of disconnect() is
  order,         \* history: the cancel and close calls made, in order
  finished,      \* history: number of calls of disconnect() that returned
  clicks,        \* history: number of clicks on Connect and Disconnect
  \* ---- the second revision of the component
  second,        \* its hook states, and those its read loop has captured
  \* ---- send()
  sending,       \* the sending state
  pending,       \* the calls of writer.write() that have not settled
  written,       \* history: the payloads given to writer.write(), in order
  sent           \* history: the calls of send()

vars == << stream, whole, container, enqueued, closed,
           csvHeaderRef, csvHeader, latest, series, rawLog, clock,
           lastOp, appended, steps, queue, base, view, effect,
           readerRef, reader, readPos, loop,
           writerRef, portRef, isConnected, connectPc, disconnectPc,
           order, finished, clicks,
           second,
           sending, pending, written, sent >>

framerVars  == << stream, whole, container, enqueued, closed >>
decoderVars == << csvHeaderRef, csvHeader, latest, series, rawLog, clock,
                  lastOp, appended, steps >>
reactVars   == << queue, base, view, effect >>
connVars    == << readerRef, reader, readPos, loop >>
sessVars    == << writerRef, portRef, isConnected, connectPc, disconnectPc,
                  order, finished, clicks >>
sendVars    == << sending, pending, written, sent >>

-----------------------------------------------------------------------------
(* Bounds of the model *)

\* longest stream fed to the line framer
MaxStream == 5
\* number of operations (lines handled, buttons pressed) in one run
MaxSteps == 4
\* largest reading of the wall clock
MaxClock == 1

-----------------------------------------------------------------------------
(* Characters *)

CR  == "\r"
LF  == "\n"
TAB == "\t"
SP  == " "

Digits == {"0","1","2","3","4","5","6","7","8","9"}
LowerCase == << "a","b","c","d","e","f","g","h","i","j","k","l","m",
                "n","o","p","q","r","s","t","u","v","w","x","y","z" >>
UpperCase == << "A","B","C","D","E","F","G","H","I","J","K","L","M",
                "N","O","P","Q","R","S","T","U","V","W","X","Y","Z" >>
Range(f) == { f[i] : i \in DOMAIN f }
Letters == Range(LowerCase) \cup Range(UpperCase)

\* \s of a regular expression and the characters String.prototype.trim strips
IsSpace(c) == c \in {SP, TAB, CR, LF}

UpperOf == [ c \in Range(LowerCase) |->
               UpperCase[CHOOSE i \in DOMAIN LowerCase : LowerCase[i] = c] ]

\* String.prototype.toUpperCase, one character
toUpperCase(c) == IF c \in DOMAIN UpperOf THEN UpperOf[c] ELSE c

toUpperCaseStr(s) == [ i \in DOMAIN s |-> toUpperCase(s[i]) ]

\* String.prototype.trim
trim(s) ==
  LET keep == { i \in DOMAIN s : ~IsSpace(s[i]) }
  IN  IF keep = {} THEN << >>
      ELSE LET lo == CHOOSE i \in keep : \A j \in keep : i <= j
               hi == CHOOSE i \in keep : \A j \in keep : j <= i
           IN  SubSeq(s, lo, hi)

\* String.prototype.includes(",") and /,/.test
HasComma(s) == \E i \in DOMAIN s : s[i] = ","

\* /[A-Za-z]/.test
HasLetter(s) == \E i \in DOMAIN s : s[i] \in Letters

Front(s) == SubSeq(s, 1, Len(s) - 1)
Last(s)  == s[Len(s)]

-----------------------------------------------------------------------------
(* LineBreakTransformer *)

\* container.split(/\r\n|[\r\n]/): the pieces between terminators, scanning
\* from the left, CRLF taken as one terminator when both are in the text.
RECURSIVE splitLinesFrom(_, _, _)
splitLinesFrom(s, i, cur) ==
  IF i > Len(s) THEN << cur >>
  ELSE IF s[i] = CR /\ i < Len(s) /\ s[i + 1] = LF
         THEN << cur >> \o splitLinesFrom(s, i + 2, << >>)
  ELSE IF s[i] \in {CR, LF}
         THEN << cur >> \o splitLinesFrom(s, i + 1, << >>)
  ELSE splitLinesFrom(s, i + 1, Append(cur, s[i]))

splitLines(s) == splitLinesFrom(s, 1, << >>)

\* (mutant) the text after the last terminator is not kept: container = ""
transformRest_dropsFragment(cont, chunk) == << >>

\* transform(chunk, controller): the lines it enqueues ...
transformLines(cont, chunk) == Front(splitLines(cont \o chunk))
\* ... and the container it leaves (lines.pop() || "")
transformRest(cont, chunk) == Last(splitLines(cont \o chunk))

\* flush(controller): the lines it enqueues
flushLines(cont) == IF cont # << >> THEN << cont >> ELSE << >>

\* One chunk of n characters arrives and goes through transform.
transform(n) ==
  /\ ~closed
  /\ n \in 1..Len(stream)
  /\ LET chunk == SubSeq(stream, 1, n)
     IN  /\ enqueued'  = enqueued \o transformLines(container, chunk)
         /\ container' = transformRest(container, chunk)
         /\ stream'    = SubSeq(stream, n + 1, Len(stream))
  /\ UNCHANGED << whole, closed >>
  /\ UNCHANGED decoderVars

\* The transport ends: the TransformStream calls flush.
flush ==
  /\ ~closed
  /\ stream = << >>
  /\ enqueued' = enqueued \o flushLines(container)
  /\ closed' = TRUE
  /\ UNCHANGED << stream, whole, container >>
  /\ UNCHANGED decoderVars

-----------------------------------------------------------------------------
(* Values held by the stores *)

\* null, a number (its canonical decimal text) or a string
Null   == [k |-> "null", v |-> << >>]
Num(d) == [k |-> "num",  v |-> d]
Str(s) == [k |-> "str",  v |-> s]

\* csvHeaderRef.current / csvHeader: null, or an array of field names
Unset         == [set |-> FALSE, names |-> << >>]
Header(names) == [set |-> TRUE,  names |-> names]

-----------------------------------------------------------------------------
(* Sensor map and default header *)

\* A pattern of SENSOR_MAP: the literal text, matched case-insensitively,
\* with \b on its left (lb) or on its right (rb).
Pat(t, lb, rb) == [text |-> t, lb |-> lb, rb |-> rb]

SENSOR_MAP == <<
  [key |-> "PM1",   alts |-> { Pat(<<"P","M","1">>, TRUE, TRUE) }],
  [key |-> "PM2_5", alts |-> { Pat(<<"P","M","2",".","5">>, FALSE, FALSE) }],
  [key |-> "PM10",  alts |-> { Pat(<<"P","M","1","0">>, TRUE, TRUE) }],
  [key |-> "NO2",   alts |-> { Pat(<<"N","O","2">>, TRUE, TRUE) }],
  [key |-> "CO",    alts |-> { Pat(<<"C","O">>, TRUE, TRUE) }],
  [key |-> "CO2",   alts |-> { Pat(<<"C","O","2">>, TRUE, TRUE) }],
  [key |-> "TVOC",  alts |-> { Pat(<<"T","V","O","C">>, FALSE, FALSE) }],
  [key |-> "RH",    alts |-> { Pat(<<"R","E","L","H">>, FALSE, FALSE),
                               Pat(<<"R","H">>, FALSE, TRUE) }],
  [key |-> "TEMP",  alts |-> { Pat(<<"T","E","M","P">>, FALSE, TRUE) }],
  [key |-> "PRESS", alts |-> { Pat(<<"P","R","E","S","S">>, FALSE, TRUE) }],
  [key |-> "CH4",   alts |-> { Pat(<<"M","E","T","H","A","N","E">>, FALSE, FALSE),
                               Pat(<<"C","H","4">>, FALSE, FALSE) }],
  [key |-> "BAT",   alts |-> { Pat(<<"B","A","T","T","E","R","Y">>, FALSE, FALSE) }]
>>

SensorKeys == { SENSOR_MAP[i].key : i \in DOMAIN SENSOR_MAP }

\* \w of a regular expression
IsWordChar(c) == c \in Letters \cup Digits \cup {"_"}

\* \b before position p of s (p = Len(s) + 1: the end of the text)
WordBoundary(s, p) ==
  LET before == p - 1 \in DOMAIN s /\ IsWordChar(s[p - 1])
      after  == p \in DOMAIN s /\ IsWordChar(s[p])
  IN  before # after

\* regex.test(h) for one alternative, flag i
PatTest(pat, h) ==
  \E i \in 1..(Len(h) - Len(pat.text) + 1) :
    /\ \A j \in DOMAIN pat.text : toUpperCase(h[i + j - 1]) = pat.text[j]
    /\ pat.lb => WordBoundary(h, i)
    /\ pat.rb => WordBoundary(h, i + Len(pat.text))

\* meta.matches(h)
matches(meta, h) == \E pat \in meta.alts : PatTest(pat, h)

DEFAULT_HEADER == <<
  <<"D","e","v","i","c","e","I","d">>,
  <<"P","M","1","(","U","G","M","3",")">>,
  <<"P","M","2",".","5","(","U","G","M","3",")">>,
  <<"P","M","1","0","(","U","G","M","3",")">>,
  <<"T","V","O","C","(","P","P","B",")">>,
  <<"C","O","2","(","P","P","M",")">>,
  <<"R","E","L","H","U","M","(","%",")">>,
  <<"T","E","M","P","(","C",")">>,
  <<"P","R","E","S","S","(","M","B","A","R",")">>,
  <<"L","A","T","(","L","A","T",")">>,
  <<"L","O","N","(","L","O","N",")">>,
  <<"B","a","t","t","e","r","y","(","%",")">>,
  <<"D","a","t","e">>,
  <<"T","i","m","e">>
>>

\* /^[0-9 .,:\-]+$/.test(line)
looksLikeNumericCsv(line) ==
  /\ line # << >>
  /\ \A i \in DOMAIN line : line[i] \in Digits \cup {SP, ".", ",", ":", "-"}

-----------------------------------------------------------------------------
(* Splitting a line into cells *)

\* first position >= i of s that holds no white space (Len(s) + 1 if none)
RECURSIVE skipSpace(_, _)
skipSpace(s, i) ==
  IF i <= Len(s) /\ IsSpace(s[i]) THEN skipSpace(s, i + 1) ELSE i

\* trimmed.split(/\s*,\s*/): at each position from the left the separator
\* is a run of white space, a comma, and a run of white space.
RECURSIVE splitCellsFrom(_, _, _)
splitCellsFrom(s, i, cur) ==
  IF i > Len(s) THEN << cur >>
  ELSE LET j == skipSpace(s, i)
       IN  IF j <= Len(s) /\ s[j] = ","
             THEN << cur >> \o splitCellsFrom(s, skipSpace(s, j + 1), << >>)
             ELSE splitCellsFrom(s, i + 1, Append(cur, s[i]))

\* text.split(","): the pieces between commas
RECURSIVE splitCommaFrom(_, _, _)
splitCommaFrom(s, i, cur) ==
  IF i > Len(s) THEN << cur >>
  ELSE IF s[i] = "," THEN << cur >> \o splitCommaFrom(s, i + 1, << >>)
  ELSE splitCommaFrom(s, i + 1, Append(cur, s[i]))

\* (mutant) the line split at its commas only, white space kept
splitCells_commaOnly(s) == splitCommaFrom(s, 1, << >>)

splitCells(s) == splitCellsFrom(s, 1, << >>)

\* array.filter(Boolean) on strings: the non-empty ones, in order
RECURSIVE filterNonEmpty(_)
filterNonEmpty(xs) ==
  IF xs = << >> THEN << >>
  ELSE IF Head(xs) = << >> THEN filterNonEmpty(Tail(xs))
  ELSE << Head(xs) >> \o filterNonEmpty(Tail(xs))

\* (customHeaderText || "").split(",").map(s => s.trim()).filter(Boolean)
\* (mutant) filter(Boolean) is missing: empty tokens are kept
customTokens_keepEmpty(text) ==
  LET parts == splitCommaFrom(text, 1, << >>)
  IN  [ i \in DOMAIN parts |-> trim(parts[i]) ]

customTokens(text) ==
  LET parts == splitCommaFrom(text, 1, << >>)
  IN  filterNonEmpty([ i \in DOMAIN parts |-> trim(parts[i]) ])

-----------------------------------------------------------------------------
(* Numbers and dates *)

RECURSIVE digitsToInt(_)
digitsToInt(ds) ==
  IF ds = << >> THEN 0
  ELSE 10 * digitsToInt(Front(ds))
         + (CHOOSE n \in 0..9 : ToString(n) = Last(ds))

RECURSIVE stripLeadingZeros(_)
stripLeadingZeros(ds) ==
  IF Len(ds) > 1 /\ Head(ds) = "0" THEN stripLeadingZeros(Tail(ds)) ELSE ds

RECURSIVE stripTrailingZeros(_)
stripTrailingZeros(ds) ==
  IF ds # << >> /\ Last(ds) = "0" THEN stripTrailingZeros(Front(ds)) ELSE ds

INFINITY == <<"I","n","f","i","n","i","t","y">>

\* Number(v) for a trimmed, non-empty v: a decimal literal with an optional
\* sign, or Infinity.  (Exponents and 0x/0b/0o literals are outside the
\* texts this model feeds in.)  kind is "finite", "infinite" or "nan";
\* d is the canonical decimal text of a finite number.
Number(v) ==
  LET signed == v[1] \in {"+", "-"}
      body   == IF signed THEN Tail(v) ELSE v
      dots   == { i \in DOMAIN body : body[i] = "." }
      isDec  == /\ Cardinality(dots) <= 1
                /\ \A i \in DOMAIN body : body[i] \in Digits \cup {"."}
                /\ \E i \in DOMAIN body : body[i] \in Digits
      dot    == IF dots = {} THEN Len(body) + 1 ELSE CHOOSE i \in dots : TRUE
      int    == stripLeadingZeros(SubSeq(body, 1, dot - 1))
      frac   == stripTrailingZeros(SubSeq(body, dot + 1, Len(body)))
      canon  == (IF v[1] = "-" THEN << "-" >> ELSE << >>)
                \o (IF int = << >> THEN << "0" >> ELSE int)
                \o (IF frac = << >> THEN << >> ELSE << "." >> \o frac)
  IN  IF body = INFINITY THEN [kind |-> "infinite", d |-> << >>]
      ELSE IF isDec THEN [kind |-> "finite", d |-> canon]
      ELSE [kind |-> "nan", d |-> << >>]

\* parseMaybeNumber(value): null, or the finite number value holds
parseMaybeNumber(value) ==
  LET v == trim(value)
  IN  IF v = << >> \/ toUpperCaseStr(v) = <<"N","/","A">> THEN Null
      ELSE LET n == Number(v)
           IN  IF n.kind = "finite" THEN Num(n.d) ELSE Null

AllDigits(s) == \A i \in DOMAIN s : s[i] \in Digits

\* days from 1970-01-01 to the civil date y-m-d
daysFromCivil(y, m, d) ==
  LET yy  == IF m <= 2 THEN y - 1 ELSE y
      era == yy \div 400
      yoe == yy - era * 400
      mp  == (m + 9) % 12
      doy == (153 * mp + 2) \div 5 + d - 1
      doe == yoe * 365 + yoe \div 4 - yoe \div 100 + doy
  IN  era * 146097 + doe - 719468

\* An instant in epoch milliseconds, days * 86400000 + ms, kept as the pair
\* << days, ms >> of its quotient and remainder.
Instant(days, ms) == << days, ms >>

\* number of days of month m of year y
daysInMonth(y, m) ==
  IF m = 2
    THEN (IF y % 4 = 0 /\ (y % 100 # 0 \/ y % 400 = 0) THEN 29 ELSE 28)
    ELSE (IF m \in {4, 6, 9, 11} THEN 30 ELSE 31)

\* the getTime() of an invalid Date: no instant has a negative time of day
NaN == << 0, -1 >>

\* new Date(text).getTime() for a local date-time YYYY-MM-DDTHH:mm or
\* YYYY-MM-DDTHH:mm:ss (the local zone taken as UTC); NaN for any other
\* text.  ok = FALSE goes with NaN.
DateGetTime(text) ==
  LET n     == Len(text)
      shape == /\ n \in {16, 19}
               /\ text[5] = "-" /\ text[8] = "-" /\ text[11] = "T"
               /\ text[14] = ":"
               /\ n = 19 => text[17] = ":"
               /\ AllDigits(SubSeq(text, 1, 4)) /\ AllDigits(SubSeq(text, 6, 7))
               /\ AllDigits(SubSeq(text, 9, 10)) /\ AllDigits(SubSeq(text, 12, 13))
               /\ AllDigits(SubSeq(text, 15, 16))
               /\ n = 19 => AllDigits(SubSeq(text, 18, 19))
      y  == digitsToInt(SubSeq(text, 1, 4))
      mo == digitsToInt(SubSeq(text, 6, 7))
      d  == digitsToInt(SubSeq(text, 9, 10))
      h  == digitsToInt(SubSeq(text, 12, 13))
      mi == digitsToInt(SubSeq(text, 15, 16))
      s  == IF n = 19 THEN digitsToInt(SubSeq(text, 18, 19)) ELSE 0
  IN  IF shape /\ mo \in 1..12 /\ d \in 1..daysInMonth(y, mo) /\ h \in 0..23
               /\ mi \in 0..59 /\ s \in 0..59
        THEN [ok |-> TRUE,
              ms |-> Instant(daysFromCivil(y, mo, d), ((h * 60 + mi) * 60 + s) * 1000)]
        ELSE [ok |-> FALSE, ms |-> NaN]

\* row[name] || row[NAME]: the first of the two that is present and
\* non-empty, or the empty text
rowEither(row, a, b) ==
  IF a \in DOMAIN row /\ row[a] # << >> THEN row[a]
  ELSE IF b \in DOMAIN row THEN row[b]
  ELSE << >>

\* (mutant) the test for NaN is missing: an unparseable date is returned
buildTimestamp_noNaNCheck(row, fallbackMs) ==
  LET dateStr == rowEither(row, <<"D","a","t","e">>, <<"D","A","T","E">>)
      timeStr == rowEither(row, <<"T","i","m","e">>, <<"T","I","M","E">>)
      parsed  == DateGetTime(dateStr \o << "T" >> \o timeStr)
  IN  IF dateStr # << >> /\ timeStr # << >>
        THEN parsed.ms
        ELSE fallbackMs

\* buildTimestamp(row, fallbackMs)
buildTimestamp(row, fallbackMs) ==
  LET dateStr == rowEither(row, <<"D","a","t","e">>, <<"D","A","T","E">>)
      timeStr == rowEither(row, <<"T","i","m","e">>, <<"T","I","M","E">>)
      parsed  == DateGetTime(dateStr \o << "T" >> \o timeStr)
  IN  IF dateStr # << >> /\ timeStr # << >> /\ parsed.ms # NaN
        THEN parsed.ms
        ELSE fallbackMs

-----------------------------------------------------------------------------
(* Bounded stores *)

\* maxPoints (600 in the source), scaled down
maxPoints == 2
\* the raw log's bound (2000 in the source), scaled down
RawLogMax == 2

\* calls of disconnect() that may be under way at once
MaxDisconnects == 2
\* clicks on Connect and Disconnect in one behaviour
MaxClicks == 3

\* calls of send() in one behaviour
MaxSends == 2

\* (mutant) the new entry is put in front: [line, ...prev]
pushLog_newestFirst(log, line) ==
  LET next == << line >> \o log
  IN  IF Len(next) > RawLogMax
        THEN SubSeq(next, 1, RawLogMax)
        ELSE next

\* (mutant) the splice keeps the oldest entries: splice(2000)
pushLog_keepOldest(log, line) ==
  LET next == Append(log, line)
  IN  IF Len(next) > RawLogMax
        THEN SubSeq(next, 1, RawLogMax)
        ELSE next

\* pushLog(line): append, then drop from the front down to the bound
pushLog(log, line) ==
  LET next == Append(log, line)
  IN  IF Len(next) > RawLogMax
        THEN SubSeq(next, Len(next) - RawLogMax + 1, Len(next))
        ELSE next

\* (mutant) the overflow cut from the wrong end: the newest point is lost
pushPoint_dropNewest(points, p) ==
  LET next == Append(points, p)
  IN  IF Len(next) > maxPoints THEN SubSeq(next, 1, maxPoints) ELSE next

\* [...points, {t, v}] and the splice(0, length - maxPoints) that follows
pushPoint(points, p) ==
  LET next == Append(points, p)
  IN  IF Len(next) > maxPoints
        THEN SubSeq(next, Len(next) - maxPoints + 1, Len(next))
        ELSE next

-----------------------------------------------------------------------------
(* Decoding one row *)

\* row = {}; for (i ...) row[hdr[i]] = cells[i] ?? ""  (a repeated name
\* keeps the cell of its last position)
buildRow(hdr, cells) ==
  [ name \in Range(hdr) |->
      LET i == CHOOSE i \in DOMAIN hdr :
                 /\ hdr[i] = name
                 /\ \A j \in DOMAIN hdr : hdr[j] = name => j <= i
      IN  IF i \in DOMAIN cells THEN cells[i] ELSE << >> ]

\* (mutant) only the number is stored: next[h] = num
latestValue_numberOnly(raw) == parseMaybeNumber(raw)

\* num ?? row[h] ?? null
latestValue(raw) ==
  LET num == parseMaybeNumber(raw)
  IN  IF num # Null THEN num ELSE Str(raw)

\* the updater given to setLatest
nextLatest(prev, hdr, row) ==
  [ name \in DOMAIN prev \cup Range(hdr) |->
      IF name \in Range(hdr) THEN latestValue(row[name]) ELSE prev[name] ]

\* hdr.find((h) => meta.matches(h)): position of the first match, 0 if none
matchingHeader(meta, hdr) ==
  IF \E i \in DOMAIN hdr : matches(meta, hdr[i])
    THEN CHOOSE i \in DOMAIN hdr :
           /\ matches(meta, hdr[i])
           /\ \A j \in DOMAIN hdr : matches(meta, hdr[j]) => i <= j
    ELSE 0

\* sensors of SENSOR_MAP with a matching field in hdr
presentKeys(hdr) ==
  { SENSOR_MAP[m].key : m \in { m \in DOMAIN SENSOR_MAP :
                                  matchingHeader(SENSOR_MAP[m], hdr) # 0 } }

metaOf(key) == SENSOR_MAP[CHOOSE m \in DOMAIN SENSOR_MAP : SENSOR_MAP[m].key = key]

\* the point { t, v } a decoded row gives the sensor `key'
pointOf(key, hdr, row, t) ==
  [t |-> t, v |-> parseMaybeNumber(row[hdr[matchingHeader(metaOf(key), hdr)]])]

\* the updater given to setSeries
nextSeries(prev, hdr, row, t) ==
  LET present == presentKeys(hdr)
  IN  [ key \in DOMAIN prev \cup present |->
          IF key \in present
            THEN pushPoint(IF key \in DOMAIN prev THEN prev[key] ELSE << >>,
                           pointOf(key, hdr, row, t))
            ELSE prev[key] ]

\* history: every point appended to each sensor's series, never evicted
nextAppended(prev, hdr, row, t) ==
  LET present == presentKeys(hdr)
  IN  [ key \in DOMAIN prev \cup present |->
          IF key \in present
            THEN Append(IF key \in DOMAIN prev THEN prev[key] ELSE << >>,
                        pointOf(key, hdr, row, t))
            ELSE prev[key] ]

-----------------------------------------------------------------------------
(* handleLine *)

\* /,/.test(trimmed) && /[A-Za-z]/.test(trimmed): a textual header
isTextualHeader(trimmed) == HasComma(trimmed) /\ HasLetter(trimmed)

\* /,/.test(trimmed) && looksLikeNumericCsv(trimmed)
isNumericRow(trimmed) == HasComma(trimmed) /\ looksLikeNumericCsv(trimmed)

\* (mutant) the default header is adopted but the row that triggered it is
\* not parsed: the fall-through is missing
detectHeader_noFallThrough(ref, trimmed) ==
  IF ref.set
    THEN [ref |-> ref, go |-> TRUE, branch |-> "none"]
  ELSE IF isTextualHeader(trimmed)
    THEN [ref |-> Header(splitCells(trimmed)), go |-> FALSE, branch |-> "header"]
  ELSE IF isNumericRow(trimmed)
          /\ Len(splitCells(trimmed)) = Len(DEFAULT_HEADER)
    THEN [ref |-> Header(DEFAULT_HEADER), go |-> FALSE, branch |-> "default"]
  ELSE [ref |-> ref, go |-> FALSE, branch |-> "discarded"]

\* (mutant) any numeric row adopts the default header: the length test is
\* missing
detectHeader_anyNumericRow(ref, trimmed) ==
  IF ref.set
    THEN [ref |-> ref, go |-> TRUE, branch |-> "none"]
  ELSE IF isTextualHeader(trimmed)
    THEN [ref |-> Header(splitCells(trimmed)), go |-> FALSE, branch |-> "header"]
  ELSE IF isNumericRow(trimmed)
    THEN [ref |-> Header(DEFAULT_HEADER), go |-> TRUE, branch |-> "default"]
  ELSE [ref |-> ref, go |-> FALSE, branch |-> "discarded"]

\* (mutant) a textual header line replaces the header even when one is set:
\* the test of csvHeaderRef.current is missing
detectHeader_redetect(ref, trimmed) ==
  IF isTextualHeader(trimmed)
    THEN [ref |-> Header(splitCells(trimmed)), go |-> FALSE, branch |-> "header"]
  ELSE IF ref.set
    THEN [ref |-> ref, go |-> TRUE, branch |-> "none"]
  ELSE IF isNumericRow(trimmed)
          /\ Len(splitCells(trimmed)) = Len(DEFAULT_HEADER)
    THEN [ref |-> Header(DEFAULT_HEADER), go |-> TRUE, branch |-> "default"]
  ELSE [ref |-> ref, go |-> FALSE, branch |-> "discarded"]

\* the block under if (!csvHeaderRef.current): the header it leaves in
\* csvHeaderRef (and gives to setCsvHeader), whether handleLine goes on to
\* the data parse, and which branch it took
detectHeader(ref, trimmed) ==
  IF ref.set
    THEN [ref |-> ref, go |-> TRUE, branch |-> "none"]
  ELSE IF isTextualHeader(trimmed)
    THEN [ref |-> Header(splitCells(trimmed)), go |-> FALSE, branch |-> "header"]
  ELSE IF isNumericRow(trimmed)
          /\ Len(splitCells(trimmed)) = Len(DEFAULT_HEADER)
    THEN [ref |-> Header(DEFAULT_HEADER), go |-> TRUE, branch |-> "default"]
  ELSE [ref |-> ref, go |-> FALSE, branch |-> "discarded"]

\* (mutant) only rows with too many cells are rejected; a short row decodes
parseBranch_shortRowsDecode(hdr, trimmed) ==
  IF ~HasComma(trimmed) THEN "ignored"
  ELSE IF Len(splitCells(trimmed)) > Len(hdr) THEN "rejected"
  ELSE "decoded"

\* the block under "Parse data with a known header": which branch it takes
parseBranch(hdr, trimmed) ==
  IF ~HasComma(trimmed) THEN "ignored"
  ELSE IF Len(splitCells(trimmed)) # Len(hdr) THEN "rejected"
  ELSE "decoded"

\* (mutant) the blank-line test is missing: every line goes on
isBlank_never(trimmed) == FALSE

\* if (!trimmed) return;
isBlank(trimmed) == trimmed = << >>

\* Date.now(): the clock never runs backwards
DateNow == { Instant(0, ms) : ms \in clock..MaxClock }

handleLine(line) ==
  /\ steps < MaxSteps
  /\ steps' = steps + 1
  /\ LET trimmed == trim(line)
     IN  IF isBlank(trimmed)
           THEN /\ lastOp' = [op |-> "handleLine", arg |-> line,
                              detect |-> "blank", parse |-> "none"]
                /\ UNCHANGED << csvHeaderRef, csvHeader, latest, series,
                                rawLog, clock, appended >>
           ELSE
             LET det    == detectHeader(csvHeaderRef, trimmed)
                 hdr    == det.ref.names
                 branch == IF det.go THEN parseBranch(hdr, trimmed) ELSE "none"
                 cells  == splitCells(trimmed)
                 row    == buildRow(hdr, cells)
             IN  /\ rawLog' = pushLog(rawLog, trimmed)
                 /\ csvHeaderRef' = det.ref
                 /\ csvHeader' = IF det.branch \in {"header", "default"}
                                   THEN det.ref ELSE csvHeader
                 /\ lastOp' = [op |-> "handleLine", arg |-> line,
                               detect |-> det.branch, parse |-> branch]
                 /\ IF branch = "decoded"
                      THEN \E nowMs \in DateNow :
                             LET t == buildTimestamp(row, nowMs)
                             IN  /\ clock' = nowMs[2]
                                 /\ latest' = nextLatest(latest, hdr, row)
                                 /\ series' = nextSeries(series, hdr, row, t)
                                 /\ appended' = nextAppended(appended, hdr, row, t)
                      ELSE UNCHANGED << latest, series, clock, appended >>
  /\ UNCHANGED framerVars

-----------------------------------------------------------------------------
(* The header buttons *)

AssumedNotice == <<"A","s","s","u","m","e","d"," ","d","e","f","a","u","l","t"," ","h","e","a","d","e","r">>
CustomNotice  == <<"C","u","s","t","o","m"," ","h","e","a","d","e","r"," ","s","e","t">>

\* onClick of "Assume Default Header"
AssumeDefaultHeader ==
  /\ steps < MaxSteps
  /\ steps' = steps + 1
  /\ csvHeaderRef' = Header(DEFAULT_HEADER)
  /\ csvHeader' = Header(DEFAULT_HEADER)
  /\ rawLog' = pushLog(rawLog, AssumedNotice)
  /\ lastOp' = [op |-> "assumeDefault", arg |-> << >>,
                detect |-> "none", parse |-> "none"]
  /\ UNCHANGED << latest, series, clock, appended >>
  /\ UNCHANGED framerVars

\* onClick of "Set Header", customHeaderText being `text'
SetHeader(text) ==
  /\ steps < MaxSteps
  /\ steps' = steps + 1
  /\ LET tokens == customTokens(text)
     IN  IF tokens # << >>
           THEN /\ csvHeaderRef' = Header(tokens)
                /\ csvHeader' = Header(tokens)
                /\ rawLog' = pushLog(rawLog, CustomNotice)
           ELSE UNCHANGED << csvHeaderRef, csvHeader, rawLog >>
  /\ lastOp' = [op |-> "setHeader", arg |-> text,
                detect |-> "none", parse |-> "none"]
  /\ UNCHANGED << latest, series, clock, appended >>
  /\ UNCHANGED framerVars

\* onClick of "Clear" on the raw log: setRawLog([])
ClearLog ==
  /\ rawLog' = << >>
  /\ lastOp' = [op |-> "clearLog", arg |-> << >>,
                detect |-> "none", parse |-> "none"]
  /\ UNCHANGED << csvHeaderRef, csvHeader, latest, series, clock,
                  appended, steps >>
  /\ UNCHANGED framerVars

-----------------------------------------------------------------------------
(* React: queued state updates, renders and the csvHeader effect *)

(* A state setter does not change what the component shows: it queues an   *)
(* updater, and a later render applies the queued updaters to the hook     *)
(* states and returns the result to the component function.  React 18      *)
(* (createRoot) is modelled: the updaters queued by one run of a handler   *)
(* are rendered together; a click is rendered synchronously when its       *)
(* handler returns, and that render leaves the updaters queued by the read *)
(* loop for the later render they were scheduled for, re-applying its own  *)
(* on top of them then.  A passive effect (useEffect) runs after the       *)
(* commit of its render: at once for the render of a click, later for any  *)
(* other, and at the latest before the next render starts.                 *)

\* the hook states of the component
HookStates(h, l, s, r) ==
  [csvHeader |-> h, latest |-> l, series |-> s, rawLog |-> r,
   latestRow |-> 0, seriesRow |-> 0]

\* one call of a state setter: the state it is for, the priority of the
\* caller, its argument, and the operation that made the call
Update(cell, lane, arg, op) ==
  [cell |-> cell, lane |-> lane, arg |-> arg, op |-> op]

\* (mutant) setLatest is wrapped in flushSync, so it is rendered before
\* setSeries is called
callsOfHandleLine_flushSyncLatest(ref, line, nowMs, op) ==
  LET trimmed == trim(line)
      det     == detectHeader(ref, trimmed)
      hdr     == det.ref.names
      branch  == IF det.go THEN parseBranch(hdr, trimmed) ELSE "none"
      row     == buildRow(hdr, splitCells(trimmed))
      t       == buildTimestamp(row, nowMs)
  IN  IF isBlank(trimmed) THEN << >>
      ELSE << Update("rawLog", "default", trimmed, op) >>
           \o (IF det.branch \in {"header", "default"}
                 THEN << Update("csvHeader", "default", det.ref, op) >>
                 ELSE << >>)
           \o (IF branch = "decoded"
                 THEN << Update("latest", "sync",
                                [hdr |-> hdr, row |-> row], op),
                         Update("series", "default",
                                [hdr |-> hdr, row |-> row, t |-> t], op) >>
                 ELSE << >>)

\* the state setters one run of handleLine calls, in the order of the calls:
\* pushLog, setCsvHeader, setLatest, setSeries
callsOfHandleLine(ref, line, nowMs, op) ==
  LET trimmed == trim(line)
      det     == detectHeader(ref, trimmed)
      hdr     == det.ref.names
      branch  == IF det.go THEN parseBranch(hdr, trimmed) ELSE "none"
      row     == buildRow(hdr, splitCells(trimmed))
      t       == buildTimestamp(row, nowMs)
  IN  IF isBlank(trimmed) THEN << >>
      ELSE << Update("rawLog", "default", trimmed, op) >>
           \o (IF det.branch \in {"header", "default"}
                 THEN << Update("csvHeader", "default", det.ref, op) >>
                 ELSE << >>)
           \o (IF branch = "decoded"
                 THEN << Update("latest", "default",
                                [hdr |-> hdr, row |-> row], op),
                         Update("series", "default",
                                [hdr |-> hdr, row |-> row, t |-> t], op) >>
                 ELSE << >>)

\* the state setters a header button calls: setCsvHeader, pushLog
callsOfButton(names, notice, op) ==
  << Update("csvHeader", "sync", Header(names), op),
     Update("rawLog", "sync", notice, op) >>

\* one queued updater applied to the hook states
applyUpdate(s, u) ==
  CASE u.cell = "rawLog"    -> [s EXCEPT !.rawLog = pushLog(@, u.arg)]
    [] u.cell = "csvHeader" -> [s EXCEPT !.csvHeader = u.arg]
    [] u.cell = "latest"    ->
         [s EXCEPT !.latest = nextLatest(@, u.arg.hdr, u.arg.row),
                   !.latestRow = u.op]
    [] u.cell = "series"    ->
         [s EXCEPT !.series = nextSeries(@, u.arg.hdr, u.arg.row, u.arg.t),
                   !.seriesRow = u.op]

RECURSIVE applyUpdates(_, _)
applyUpdates(s, q) ==
  IF q = << >> THEN s ELSE applyUpdates(applyUpdate(s, Head(q)), Tail(q))

\* the updaters a synchronous render processes: those of the click and
\* those an earlier synchronous render processed already
RECURSIVE syncUpdates(_)
syncUpdates(q) ==
  IF q = << >> THEN << >>
  ELSE IF Head(q).lane = "default" THEN syncUpdates(Tail(q))
  ELSE << Head(q) >> \o syncUpdates(Tail(q))

\* the queue a synchronous render leaves
rebased(q) ==
  [ i \in DOMAIN q |->
      IF q[i].lane = "sync" THEN [q[i] EXCEPT !.lane = "rebased"] ELSE q[i] ]

\* a click has queued updaters: React renders before anything else runs
SyncWork == \E i \in DOMAIN queue : queue[i].lane = "sync"

\* (mutant) the effect has no dependency list: it runs after every render
effectDue_everyRender(prevHeader, nextHeader) == TRUE

\* useEffect(() => { csvHeaderRef.current = csvHeader; }, [csvHeader]):
\* the effect is scheduled by a commit that changed csvHeader
effectDue(prevHeader, nextHeader) == prevHeader # nextHeader

NoEffect == [due |-> FALSE, value |-> Unset, reverted |-> FALSE]

\* the render scheduled for the updaters the read loop queued
Render ==
  /\ ~SyncWork
  /\ queue # << >>
  /\ LET flushed == IF effect.due THEN effect.value ELSE csvHeaderRef
         next    == applyUpdates(base, queue)
     IN  /\ csvHeaderRef' = flushed
         /\ view' = next
         /\ base' = next
         /\ queue' = << >>
         /\ effect' = [due |-> effectDue(view.csvHeader, next.csvHeader),
                       value |-> next.csvHeader,
                       reverted |-> effect.reverted \/ flushed # csvHeaderRef]
  /\ UNCHANGED << csvHeader, latest, series, rawLog, clock, lastOp,
                  appended, steps >>
  /\ UNCHANGED framerVars

\* the synchronous render of a click, its commit and its effect
RenderSync ==
  /\ SyncWork
  /\ LET flushed == IF effect.due THEN effect.value ELSE csvHeaderRef
         next    == applyUpdates(base, syncUpdates(queue))
         due     == effectDue(view.csvHeader, next.csvHeader)
         rest    == \E i \in DOMAIN queue : queue[i].lane = "default"
     IN  /\ csvHeaderRef' = IF due THEN next.csvHeader ELSE flushed
         /\ view' = next
         /\ base' = IF rest THEN base ELSE next
         /\ queue' = IF rest THEN rebased(queue) ELSE << >>
         /\ effect' = [due |-> FALSE,
                       value |-> next.csvHeader,
                       reverted |-> effect.reverted \/ flushed # csvHeaderRef]
  /\ UNCHANGED << csvHeader, latest, series, rawLog, clock, lastOp,
                  appended, steps >>
  /\ UNCHANGED framerVars

\* the effect of an earlier commit runs
FlushPassiveEffects ==
  /\ ~SyncWork
  /\ effect.due
  /\ csvHeaderRef' = effect.value
  /\ effect' = [effect EXCEPT !.due = FALSE,
                              !.reverted = @ \/ effect.value # csvHeaderRef]
  /\ UNCHANGED << csvHeader, latest, series, rawLog, clock, lastOp,
                  appended, steps >>
  /\ UNCHANGED << queue, base, view >>
  /\ UNCHANGED framerVars

\* handleLine called by the read loop
ReadLoopLine(line) ==
  /\ ~SyncWork
  /\ handleLine(line)
  /\ queue' = queue \o callsOfHandleLine(csvHeaderRef, line,
                                         Instant(0, clock'), steps')
  /\ UNCHANGED << base, view, effect >>

ClickAssumeDefaultHeader ==
  /\ ~SyncWork
  /\ AssumeDefaultHeader
  /\ queue' = queue \o callsOfButton(DEFAULT_HEADER, AssumedNotice, steps')
  /\ UNCHANGED << base, view, effect >>

ClickSetHeader(text) ==
  /\ ~SyncWork
  /\ SetHeader(text)
  /\ queue' = queue \o (IF customTokens(text) # << >>
                          THEN callsOfButton(customTokens(text),
                                             CustomNotice, steps')
                          ELSE << >>)
  /\ UNCHANGED << base, view, effect >>

-----------------------------------------------------------------------------
(* The connection: readLoop and disconnect *)

(* readLoop awaits reader.read() on the readable side of the TransformStream *)
(* that wraps the LineBreakTransformer.  The lines transform and flush have  *)
(* enqueued are returned one per read.  When the transport ends, flush runs  *)
(* and read returns done once the queue is empty.  When the transport fails, *)
(* the stream is errored: the queue is dropped and read rejects.  When       *)
(* reader.cancel() is called, the queue is dropped, flush does not run, and  *)
(* the pending read returns done.                                            *)

ReadErrorNotice == <<"R","e","a","d"," ","e","r","r","o","r">>

\* a chunk arrives from the port
Chunk(n) ==
  /\ reader = "readable"
  /\ transform(n)
  /\ UNCHANGED connVars

\* the port's readable ends: the pipe closes the TransformStream
TransportEnds ==
  /\ reader = "readable"
  /\ flush
  /\ UNCHANGED connVars

\* the port's readable fails: the pipe errors the TransformStream
TransportFails ==
  /\ reader = "readable"
  /\ ~closed
  /\ reader' = "errored"
  /\ UNCHANGED << readerRef, readPos, loop >>
  /\ UNCHANGED framerVars
  /\ UNCHANGED decoderVars

\* (mutant) the catch block of readLoop drops what was decoded so far
readLoopCatch_resetStores(stores) ==
  [stores EXCEPT !.latest = << >>, !.series = << >>,
                 !.rawLog = pushLog(@, ReadErrorNotice)]

\* the catch block of readLoop: pushLog
readLoopCatch(stores) ==
  [stores EXCEPT !.rawLog = pushLog(@, ReadErrorNotice)]

\* (mutant) the loop reads again before it handles the value: a line is
\* skipped whenever another one is queued behind it
lineRead_skipsQueued(lines, pos) ==
  IF pos + 2 <= Len(lines) THEN lines[pos + 2] ELSE lines[pos + 1]

\* const { value } = await reader.read(): the oldest line not read yet
lineRead(lines, pos) == lines[pos + 1]

\* await reader.read() returns a line: handleLine(value)
ReadLine ==
  /\ loop = "reading"
  /\ reader = "readable"
  /\ readPos < Len(enqueued)
  /\ handleLine(lineRead(enqueued, readPos))
  /\ readPos' = readPos + 1
  /\ UNCHANGED << readerRef, reader, loop >>

\* await reader.read() returns done: break
ReadDone ==
  /\ loop = "reading"
  /\ \/ reader = "cancelled"
     \/ reader = "readable" /\ closed /\ readPos = Len(enqueued)
  /\ loop' = "done"
  /\ UNCHANGED << readerRef, reader, readPos >>
  /\ UNCHANGED framerVars
  /\ UNCHANGED decoderVars

\* await reader.read() rejects: the catch block
ReadError ==
  /\ loop = "reading"
  /\ reader = "errored"
  /\ loop' = "failed"
  /\ LET after == readLoopCatch([csvHeader |-> csvHeader, latest |-> latest,
                                 series |-> series, rawLog |-> rawLog])
     IN  /\ csvHeader' = after.csvHeader
         /\ latest' = after.latest
         /\ series' = after.series
         /\ rawLog' = after.rawLog
  /\ lastOp' = [op |-> "readError", arg |-> << >>,
                detect |-> "none", parse |-> "none"]
  /\ UNCHANGED << csvHeaderRef, clock, appended, steps >>
  /\ UNCHANGED << readerRef, reader, readPos >>
  /\ UNCHANGED framerVars

\* disconnect(), as far as the reader goes: await readerRef.current.cancel()
\* in a try block, then readerRef.current = null
Disconnect ==
  /\ readerRef
  /\ readerRef' = FALSE
  /\ reader' = IF reader = "readable" THEN "cancelled" ELSE reader
  /\ UNCHANGED << readPos, loop >>
  /\ UNCHANGED framerVars
  /\ UNCHANGED decoderVars

-----------------------------------------------------------------------------
(* connect() and disconnect() *)

(* Both are async functions: each runs without interruption up to its next  *)
(* await, and anything else may run before the awaited call settles.  The   *)
(* Connect button is rendered while isConnected is false and the Disconnect *)
(* button while it is true; neither handler checks whether an earlier call  *)
(* is still under way.  One call of connect() at a time is modelled, and    *)
(* the streams of one connection: connect() opens a port only when the read *)
(* loop of the connection before has returned.                              *)

ConnectErrorNotice == <<"C","o","n","n","e","c","t"," ","e","r","r","o","r">>

DisconnectIds == 1..MaxDisconnects

\* what disconnect() reads and writes
Refs ==
  [readerRef |-> readerRef, writerRef |-> writerRef, portRef |-> portRef,
   isConnected |-> isConnected, reader |-> reader, pc |-> disconnectPc,
   order |-> order, finished |-> finished]

\* (mutant) the same instance of LineBreakTransformer serves every
\* connection
connectFramer_reused(cont) == cont

\* const lb = new LineBreakTransformer(): the container of the framer a
\* connection starts with, whatever the one before has left (cont)
connectFramer(cont) == << >>

\* disconnect() d runs on from its k-th if statement: to the await of the
\* first reference that is set, or through the finally block to its end
disconnectFrom(s, d, k) ==
  IF k <= 1 /\ s.readerRef
    THEN [s EXCEPT !.reader = IF @ = "readable" THEN "cancelled" ELSE @,
                   !.order = Append(@, "cancel"),
                   !.pc[d] = "cancel"]
  ELSE IF k <= 2 /\ s.writerRef
    THEN [s EXCEPT !.order = Append(@, "closeWriter"),
                   !.pc[d] = "closeWriter"]
  ELSE IF k <= 3 /\ s.portRef
    THEN [s EXCEPT !.order = Append(@, "closePort"),
                   !.pc[d] = "closePort"]
  ELSE [s EXCEPT !.isConnected = FALSE,
                 !.pc[d] = "idle",
                 !.finished = @ + 1]

\* the call disconnect() d awaits has settled: resolved or rejected, the
\* catch block is empty and the statement after the try runs
disconnectResumed(s, d) ==
  CASE s.pc[d] = "cancel" ->
         disconnectFrom([s EXCEPT !.readerRef = FALSE], d, 2)
    [] s.pc[d] = "closeWriter" ->
         disconnectFrom([s EXCEPT !.writerRef = FALSE], d, 3)
    [] s.pc[d] = "closePort" ->
         disconnectFrom([s EXCEPT !.portRef = FALSE], d, 4)

\* the state disconnect() has left
refsBecome(s) ==
  /\ readerRef' = s.readerRef
  /\ writerRef' = s.writerRef
  /\ portRef' = s.portRef
  /\ isConnected' = s.isConnected
  /\ reader' = s.reader
  /\ disconnectPc' = s.pc
  /\ order' = s.order
  /\ finished' = s.finished

\* a call of disconnect() that is not under way
idleDisconnect ==
  CHOOSE d \in DisconnectIds :
    /\ disconnectPc[d] = "idle"
    /\ \A e \in DisconnectIds : e < d => disconnectPc[e] # "idle"

\* onClick of Disconnect: disconnect() runs to its first await
ClickDisconnect ==
  /\ isConnected
  /\ clicks < MaxClicks
  /\ \E d \in DisconnectIds : disconnectPc[d] = "idle"
  /\ refsBecome(disconnectFrom(Refs, idleDisconnect, 1))
  /\ clicks' = clicks + 1
  /\ UNCHANGED << readPos, loop, connectPc >>
  /\ UNCHANGED framerVars
  /\ UNCHANGED decoderVars

\* the cancel or close a call of disconnect() awaits settles
DisconnectResumes(d) ==
  /\ disconnectPc[d] # "idle"
  /\ refsBecome(disconnectResumed(Refs, d))
  /\ UNCHANGED << readPos, loop, connectPc, clicks >>
  /\ UNCHANGED framerVars
  /\ UNCHANGED decoderVars

\* onClick of Connect: connect() runs to await navigator.serial.requestPort
ClickConnect ==
  /\ ~isConnected
  /\ connectPc = "idle"
  /\ clicks < MaxClicks
  /\ connectPc' = "requestPort"
  /\ clicks' = clicks + 1
  /\ UNCHANGED << writerRef, portRef, isConnected, disconnectPc, order,
                  finished >>
  /\ UNCHANGED connVars
  /\ UNCHANGED framerVars
  /\ UNCHANGED decoderVars

\* requestPort settles: with a port, and connect() runs to await port.open,
\* or with none (.catch(() => null)), and connect() returns
RequestPortSettles ==
  /\ connectPc = "requestPort"
  /\ \E port \in BOOLEAN : connectPc' = IF port THEN "open" ELSE "idle"
  /\ UNCHANGED << writerRef, portRef, isConnected, disconnectPc, order,
                  finished, clicks >>
  /\ UNCHANGED connVars
  /\ UNCHANGED framerVars
  /\ UNCHANGED decoderVars

\* port.open resolves and the rest of the try block runs: the references
\* are set, the indicator is set and readLoop starts on a new line stream
PortOpens(text) ==
  /\ connectPc = "open"
  /\ loop # "reading"
  /\ connectPc' = "idle"
  /\ portRef' = TRUE
  /\ stream' = text
  /\ whole' = text
  /\ container' = connectFramer(container)
  /\ enqueued' = << >>
  /\ closed' = FALSE
  /\ readerRef' = TRUE
  /\ reader' = "readable"
  /\ readPos' = 0
  /\ writerRef' = TRUE
  /\ isConnected' = TRUE
  /\ loop' = "reading"
  /\ UNCHANGED << disconnectPc, order, finished, clicks >>
  /\ UNCHANGED decoderVars

\* the try block of connect() throws, at port.open (nothing is set yet) or
\* at the pipe to port.writable (the port and the reader are set): the catch
\* block calls pushLog and disconnect(), which runs to its first await
ConnectFails(opened) ==
  /\ connectPc = "open"
  /\ opened => loop # "reading"
  /\ \E d \in DisconnectIds : disconnectPc[d] = "idle"
  /\ connectPc' = "idle"
  /\ refsBecome(disconnectFrom(
       IF opened
         THEN [Refs EXCEPT !.portRef = TRUE, !.readerRef = TRUE,
                           !.reader = "readable"]
         ELSE Refs,
       idleDisconnect, 1))
  /\ IF opened
       THEN /\ container' = connectFramer(container)
            /\ enqueued' = << >>
            /\ closed' = FALSE
            /\ readPos' = 0
            /\ UNCHANGED << stream, whole >>
       ELSE UNCHANGED << readPos, stream, whole, container, enqueued, closed >>
  /\ rawLog' = pushLog(rawLog, ConnectErrorNotice)
  /\ lastOp' = [op |-> "connectError", arg |-> << >>,
                detect |-> "none", parse |-> "none"]
  /\ UNCHANGED << csvHeaderRef, csvHeader, latest, series, clock, appended,
                  steps >>
  /\ UNCHANGED << loop, clicks >>

-----------------------------------------------------------------------------
(* The second revision of the component *)

(* It has no csvHeaderRef: handleLine reads header, latest and series, the  *)
(* constants of the render it was made in.  connect() calls readLoop(), and *)
(* the loop calls the handleLine of that same render for every line: the    *)
(* three values it reads are those of the render the loop was started from, *)
(* whatever the setters have been given since.                              *)

\* parseMaybeNumber of the second revision: if (!value) return null, then
\* value.trim(), "N/A", Number
parseMaybeNumber_second(value) ==
  IF value = << >> THEN Null
  ELSE LET v == trim(value)
       IN  IF toUpperCaseStr(v) = <<"N","/","A">> THEN Null
           ELSE LET n == Number(v)
                IN  IF n.kind = "finite" THEN Num(n.d) ELSE Null

\* buildTimestamp of the second revision: row["Date"] and row["Time"] only
buildTimestamp_second(row, fallbackMs) ==
  LET dateStr == rowEither(row, <<"D","a","t","e">>, <<"D","a","t","e">>)
      timeStr == rowEither(row, <<"T","i","m","e">>, <<"T","i","m","e">>)
      parsed  == DateGetTime(dateStr \o << "T" >> \o timeStr)
  IN  IF dateStr # << >> /\ timeStr # << >> /\ parsed.ms # NaN
        THEN parsed.ms
        ELSE fallbackMs

\* nextLatest = { ...latest }; nextLatest[h] = num ?? raw ?? null
nextLatest_second(captured, hdr, row) ==
  [ name \in DOMAIN captured \cup Range(hdr) |->
      IF name \in Range(hdr)
        THEN LET num == parseMaybeNumber_second(row[name])
             IN  IF num # Null THEN num ELSE Str(row[name])
        ELSE captured[name] ]

\* update = { ...series }; one point more for every sensor of the header
nextSeries_second(captured, hdr, row, t) ==
  LET present == presentKeys(hdr)
  IN  [ key \in DOMAIN captured \cup present |->
          IF key \in present
            THEN pushPoint(
                   IF key \in DOMAIN captured THEN captured[key] ELSE << >>,
                   [t |-> t,
                    v |-> parseMaybeNumber_second(
                            row[hdr[matchingHeader(metaOf(key), hdr)]])])
            ELSE captured[key] ]

\* handleLine of the second revision: s.captured is what it reads, the
\* other fields of s are the hook states its setters give
handleLine_second(s, line, nowMs) ==
  LET trimmed == trim(line)
      cap     == s.captured
      det     == detectHeader(cap.header, trimmed)
      hdr     == cap.header.names
      row     == buildRow(hdr, splitCells(trimmed))
      t       == buildTimestamp_second(row, nowMs)
      logged  == [s EXCEPT !.rawLog = pushLog(@, trimmed)]
      named   == IF det.branch \in {"header", "default"}
                   THEN [logged EXCEPT !.header = det.ref]
                   ELSE logged
  IN  IF isBlank(trimmed) THEN s
      ELSE IF det.go /\ cap.header.set /\ parseBranch(hdr, trimmed) = "decoded"
        THEN [named EXCEPT !.latest = nextLatest_second(cap.latest, hdr, row),
                           !.series = nextSeries_second(cap.series, hdr, row, t)]
      ELSE named

\* Assume Default Header is pressed in both revisions, before a connection
AssumeDefaultHeaderBoth ==
  /\ ~second.started
  /\ AssumeDefaultHeader
  /\ second' = [second EXCEPT !.header = Header(DEFAULT_HEADER),
                              !.rawLog = pushLog(@, AssumedNotice)]

\* connect() calls readLoop() in both revisions: the loop of the second
\* keeps the header, latest and series of the render it starts from
ReadLoopStarts ==
  /\ ~second.started
  /\ second' = [second EXCEPT
                  !.started = TRUE,
                  !.captured = [header |-> second.header,
                                latest |-> second.latest,
                                series |-> second.series]]
  /\ UNCHANGED framerVars
  /\ UNCHANGED decoderVars

\* both read loops are given the same line at the same time
HandleLineBoth(line) ==
  /\ second.started
  /\ handleLine(line)
  /\ second' = handleLine_second(second, line, Instant(0, clock'))

-----------------------------------------------------------------------------
(* send() *)

(* The quick-command buttons call send(cmd) whenever they are clicked; the  *)
(* Send button calls send(customCmd) while isConnected is true and sending  *)
(* is false.  send() runs to await writerRef.current.write(payload), and    *)
(* anything else, another send() included, may run before the write         *)
(* settles.  The notices are modelled without their leading symbol and      *)
(* without the text of err.message.                                         *)

WriteErrorNotice == <<"W","r","i","t","e"," ","e","r","r","o","r">>

\* the values of the newline select
AutoNewlines == { "none", "cr", "lf", "crlf" }

\* autoNewline === "none" ? "" : autoNewline
newlineText(autoNewline) ==
  CASE autoNewline = "none" -> << >>
    [] autoNewline = "cr"   -> << CR >>
    [] autoNewline = "lf"   -> << LF >>
    [] autoNewline = "crlf" -> << CR, LF >>

\* const payload = text + (autoNewline === "none" ? "" : autoNewline)
payloadOf(text, autoNewline) == text \o newlineText(autoNewline)

\* JSON.stringify of a string: quoted, with CR, LF, quote and backslash
\* escaped
RECURSIVE escaped(_)
escaped(s) ==
  IF s = << >> THEN << >>
  ELSE (CASE s[1] = CR   -> << "\\", "r" >>
          [] s[1] = LF   -> << "\\", "n" >>
          [] s[1] = "\"" -> << "\\", "\"" >>
          [] s[1] = "\\" -> << "\\", "\\" >>
          [] OTHER       -> << s[1] >>) \o escaped(Tail(s))

JSONstringify(s) == << "\"" >> \o escaped(s) \o << "\"" >>

\* the echo of a command in the raw log
echoOf(payload) == << "-", ">", " " >> \o JSONstringify(payload)

\* (mutant) setSending(false) follows pushLog in the try block instead of
\* standing in a finally block
sendSettled_noFinally(s, payload, ok) ==
  IF ok
    THEN [s EXCEPT !.rawLog = pushLog(@, echoOf(payload)), !.sending = FALSE]
    ELSE [s EXCEPT !.rawLog = pushLog(@, WriteErrorNotice)]

\* what send() does once its write has settled: pushLog of the echo, or of
\* the notice in the catch block, then setSending(false) in the finally
sendSettled(s, payload, ok) ==
  [s EXCEPT !.rawLog = pushLog(@, IF ok THEN echoOf(payload)
                                       ELSE WriteErrorNotice),
            !.sending = FALSE]

\* send(text) is called: it returns at once when there is no writer,
\* otherwise it sets sending and calls writer.write(payload)
Send(text, autoNewline) ==
  /\ Len(sent) < MaxSends
  /\ sent' = Append(sent, [text |-> text, autoNewline |-> autoNewline,
                           writer |-> writerRef])
  /\ IF writerRef
       THEN /\ sending' = TRUE
            /\ written' = Append(written, payloadOf(text, autoNewline))
            /\ pending' = pending \cup { Len(written) + 1 }
       ELSE UNCHANGED << sending, written, pending >>
  /\ UNCHANGED framerVars
  /\ UNCHANGED decoderVars

\* the write of call i resolves (ok) or rejects: the rest of send() runs
WriteSettles(i, ok) ==
  /\ i \in pending
  /\ pending' = pending \ { i }
  /\ LET after == sendSettled([rawLog |-> rawLog, sending |-> sending],
                              written[i], ok)
     IN  /\ rawLog' = after.rawLog
         /\ sending' = after.sending
  /\ UNCHANGED << written, sent >>
  /\ UNCHANGED << csvHeaderRef, csvHeader, latest, series, clock, lastOp,
                  appended, steps >>
  /\ UNCHANGED framerVars

-----------------------------------------------------------------------------
(* Inputs *)

\* the lines the device sends in this model
BlankLine   == <<" ","\t">>
HeaderLine  == <<"I","D"," ",","," ","T","E","M","P",",","R","H">>
RowLine     == <<"7",",","2","1",".","5",",","4","0">>
RowLineNA   == <<"8",",","N","/","A",",">>
ShortLine   == <<"1",",","2">>
NoCommaLine == <<"4","2">>
DefaultRow  == <<"1",",","2",",","3",",","4",",","5",",","6",",","7",",","8",",","9",",","1","0",",","1","1",",","1","2",",","2","0","2","5","-","0","1","-","0","2",",","0","3",":","0","4">>

Lines == { BlankLine, HeaderLine, RowLine, RowLineNA, ShortLine,
           NoCommaLine, DefaultRow }

\* the texts typed into the custom header input
EmptyText    == << >>
NoTokenText  == <<" ",","," ">>
OneFieldText == <<"T","E","M","P">>
RepeatedText == <<" ","T","E","M","P"," ",","," ","T","E","M","P">>

HeaderTexts == { EmptyText, NoTokenText, OneFieldText, RepeatedText }

\* characters of the streams fed to the line framer
StreamChars == { "a", CR, LF }

RECURSIVE SeqsUpTo(_, _)
SeqsUpTo(S, n) ==
  IF n = 0 THEN { << >> }
  ELSE LET shorter == SeqsUpTo(S, n - 1)
       IN  shorter \cup { Append(s, c) : s \in shorter, c \in S }

-----------------------------------------------------------------------------
(* Specifications *)

InitFramer ==
  /\ container = << >>
  /\ enqueued = << >>
  /\ closed = FALSE

InitDecoder ==
  /\ csvHeaderRef = Unset
  /\ csvHeader = Unset
  /\ latest = << >>
  /\ series = << >>
  /\ rawLog = << >>
  /\ clock = 0
  /\ lastOp = [op |-> "init", arg |-> << >>, detect |-> "none", parse |-> "none"]
  /\ appended = << >>
  /\ steps = 0

\* the component with lines handed to handleLine one at a time
\* no call of connect() or disconnect() is under way
InitCalls ==
  /\ connectPc = "idle"
  /\ disconnectPc = [ d \in 1..MaxDisconnects |-> "idle" ]
  /\ order = << >>
  /\ finished = 0
  /\ clicks = 0

\* connect() has returned: the writer and the port are set, the indicator on
InitConnected ==
  /\ writerRef = TRUE
  /\ portRef = TRUE
  /\ isConnected = TRUE
  /\ InitCalls

InitNoConn ==
  /\ readerRef = FALSE
  /\ reader = "none"
  /\ readPos = 0
  /\ loop = "none"
  /\ writerRef = FALSE
  /\ portRef = FALSE
  /\ isConnected = FALSE
  /\ InitCalls

\* send() has not been called
InitSend ==
  /\ sending = FALSE
  /\ pending = { }
  /\ written = << >>
  /\ sent = << >>

\* the second revision as mounted, no read loop started
InitSecond ==
  second = [started |-> FALSE,
            captured |-> [header |-> Unset, latest |-> << >>, series |-> << >>],
            header |-> Unset, latest |-> << >>, series |-> << >>,
            rawLog |-> << >>]

InitReact ==
  /\ queue = << >>
  /\ base = HookStates(Unset, << >>, << >>, << >>)
  /\ view = base
  /\ effect = NoEffect

Init ==
  /\ stream = << >>
  /\ whole = << >>
  /\ InitFramer
  /\ InitDecoder
  /\ InitReact
  /\ InitNoConn
  /\ InitSecond
  /\ InitSend

Next ==
  \/ \E line \in Lines : handleLine(line) /\ UNCHANGED << reactVars, connVars, sessVars, second, sendVars >>
  \/ AssumeDefaultHeader /\ UNCHANGED << reactVars, connVars, sessVars, second, sendVars >>
  \/ \E text \in HeaderTexts : SetHeader(text) /\ UNCHANGED << reactVars, connVars, sessVars, second, sendVars >>

Spec == Init /\ [][Next]_vars

\* the line framer alone, over every stream and every way of chunking it
InitStream ==
  /\ stream \in SeqsUpTo(StreamChars, MaxStream)
  /\ whole = stream
  /\ InitFramer
  /\ InitDecoder
  /\ InitReact
  /\ InitNoConn
  /\ InitSecond
  /\ InitSend

NextStream ==
  \/ \E n \in 1..MaxStream : transform(n) /\ UNCHANGED << reactVars, connVars, sessVars, second, sendVars >>
  \/ flush /\ UNCHANGED << reactVars, connVars, sessVars, second, sendVars >>

SpecFramer == InitStream /\ [][NextStream]_vars

\* the component with its renders: lines from the read loop, clicks on the
\* header buttons, renders and effects in every order React allows
ReactLines == { HeaderLine, RowLine, NoCommaLine }
ReactTexts == { OneFieldText }

NextReact ==
  \/ \E line \in ReactLines : ReadLoopLine(line) /\ UNCHANGED << connVars, sessVars, second, sendVars >>
  \/ ClickAssumeDefaultHeader /\ UNCHANGED << connVars, sessVars, second, sendVars >>
  \/ \E text \in ReactTexts : ClickSetHeader(text) /\ UNCHANGED << connVars, sessVars, second, sendVars >>
  \/ Render /\ UNCHANGED << connVars, sessVars, second, sendVars >>
  \/ RenderSync /\ UNCHANGED << connVars, sessVars, second, sendVars >>
  \/ FlushPassiveEffects /\ UNCHANGED << connVars, sessVars, second, sendVars >>

SpecReact == Init /\ [][NextReact]_vars

\* one connection: the port delivers a stream in chunks, ends or fails;
\* readLoop handles the lines; the operator may disconnect, press a header
\* button or clear the raw log at any time
HeaderChunk == <<"R","H",",","a">>
RowChunk    == <<"1",",","2">>
PartialRow  == <<"3",",","4">>

ConnStreams ==
  { HeaderChunk \o << LF >> \o RowChunk \o << CR, LF >> \o PartialRow,
    HeaderChunk \o << CR >> \o RowChunk \o << LF >> }

InitConn ==
  /\ stream \in ConnStreams
  /\ whole = stream
  /\ InitFramer
  /\ InitDecoder
  /\ InitReact
  /\ readerRef = TRUE
  /\ reader = "readable"
  /\ readPos = 0
  /\ loop = "reading"
  /\ InitConnected
  /\ InitSecond
  /\ InitSend

NextConn ==
  \/ \E n \in 1..MaxStream : Chunk(n) /\ UNCHANGED << reactVars, sessVars, second, sendVars >>
  \/ TransportEnds /\ UNCHANGED << reactVars, sessVars, second, sendVars >>
  \/ TransportFails /\ UNCHANGED << reactVars, sessVars, second, sendVars >>
  \/ ReadLine /\ UNCHANGED << reactVars, sessVars, second, sendVars >>
  \/ ReadDone /\ UNCHANGED << reactVars, sessVars, second, sendVars >>
  \/ ReadError /\ UNCHANGED << reactVars, sessVars, second, sendVars >>
  \/ Disconnect /\ UNCHANGED << reactVars, sessVars, second, sendVars >>
  \/ AssumeDefaultHeader /\ UNCHANGED << reactVars, connVars, sessVars, second, sendVars >>
  \/ SetHeader(OneFieldText) /\ UNCHANGED << reactVars, connVars, sessVars, second, sendVars >>
  \/ ClearLog /\ UNCHANGED << reactVars, connVars, sessVars, second, sendVars >>

SpecConn == InitConn /\ [][NextConn]_vars

\* one connection left alone: the port delivers a stream in chunks of any
\* size and ends; readLoop handles every line; the operator does nothing
SpaceLine == << " " >>

PipeStreams ==
  { HeaderChunk \o << CR, LF >> \o SpaceLine \o << LF >> \o RowChunk,
    HeaderChunk \o << CR >> \o RowChunk \o << CR, LF >>,
    HeaderChunk \o << LF >> \o RowChunk \o << CR, LF >> \o PartialRow }

InitPipe ==
  /\ stream \in PipeStreams
  /\ whole = stream
  /\ InitFramer
  /\ InitDecoder
  /\ InitReact
  /\ readerRef = TRUE
  /\ reader = "readable"
  /\ readPos = 0
  /\ loop = "reading"
  /\ InitConnected
  /\ InitSecond
  /\ InitSend

NextPipe ==
  \/ \E n \in 1..Len(stream) : Chunk(n) /\ UNCHANGED << reactVars, sessVars, second, sendVars >>
  \/ TransportEnds /\ UNCHANGED << reactVars, sessVars, second, sendVars >>
  \/ ReadLine /\ UNCHANGED << reactVars, sessVars, second, sendVars >>
  \/ ReadDone /\ UNCHANGED << reactVars, sessVars, second, sendVars >>

SpecPipe == InitPipe /\ [][NextPipe]_vars

\* the operator connects and disconnects as the buttons allow; every
\* connection delivers the same text and ends, fails or is cancelled
SessionText == HeaderChunk \o << LF >> \o RowChunk \o << LF >> \o << "3" >>

NextSession ==
  \/ ClickConnect /\ UNCHANGED << reactVars, second, sendVars >>
  \/ RequestPortSettles /\ UNCHANGED << reactVars, second, sendVars >>
  \/ PortOpens(SessionText) /\ UNCHANGED << reactVars, second, sendVars >>
  \/ \E opened \in BOOLEAN : ConnectFails(opened) /\ UNCHANGED << reactVars, second, sendVars >>
  \/ ClickDisconnect /\ UNCHANGED << reactVars, second, sendVars >>
  \/ \E d \in DisconnectIds : DisconnectResumes(d) /\ UNCHANGED << reactVars, second, sendVars >>
  \/ \E n \in 1..MaxStream : Chunk(n) /\ UNCHANGED << reactVars, sessVars, second, sendVars >>
  \/ TransportEnds /\ UNCHANGED << reactVars, sessVars, second, sendVars >>
  \/ TransportFails /\ UNCHANGED << reactVars, sessVars, second, sendVars >>
  \/ ReadLine /\ UNCHANGED << reactVars, sessVars, second, sendVars >>
  \/ ReadDone /\ UNCHANGED << reactVars, sessVars, second, sendVars >>
  \/ ReadError /\ UNCHANGED << reactVars, sessVars, second, sendVars >>

SpecSession == Init /\ [][NextSession]_vars

\* what comes without the operator once a connection is there: the promises
\* connect() and disconnect() await settle (the choice of a port is the
\* operator's), and readLoop returns when reader.read() reports done or
\* rejects.  While readLoop is still reading, nothing here forces a step.
Settles ==
  \/ PortOpens(SessionText) /\ UNCHANGED << reactVars, second, sendVars >>
  \/ \E opened \in BOOLEAN : ConnectFails(opened) /\ UNCHANGED << reactVars, second, sendVars >>
  \/ \E d \in DisconnectIds : DisconnectResumes(d) /\ UNCHANGED << reactVars, second, sendVars >>
  \/ ReadDone /\ UNCHANGED << reactVars, sessVars, second, sendVars >>
  \/ ReadError /\ UNCHANGED << reactVars, sessVars, second, sendVars >>

SpecSessionFair == Init /\ [][NextSession]_vars /\ WF_vars(Settles)

\* rows with date, time and text fields, under headers that name the date
\* and time fields in different letter cases
LowerHeader  == <<"d","a","t","e",",","t","i","m","e",",","T","E","M","P">>
MixedHeader  == <<"D","a","t","e",",","T","I","M","E",",","T","E","M","P">>
GoodDateRow  == <<"2","0","2","5","-","0","1","-","0","2",",","0","3",":","0","4",",","2","1",".","5">>
BadDateRow   == <<"2","0","2","5","-","1","3","-","0","2",",","0","3",":","0","4",",","h","o","t">>
NoTimeRow    == <<"2","0","2","5","-","0","1","-","0","2",","," ",",","5">>

RowLines == { LowerHeader, MixedHeader, GoodDateRow, BadDateRow, NoTimeRow }

NextRows ==
  \E line \in RowLines : handleLine(line) /\ UNCHANGED << reactVars, connVars, sessVars, second, sendVars >>

SpecRows == Init /\ [][NextRows]_vars

\* the two revisions side by side: the same buttons before the connection,
\* then the same lines
RevisionLines == { HeaderLine, RowLine, NoCommaLine, DefaultRow }

NextRevisions ==
  \/ AssumeDefaultHeaderBoth /\ UNCHANGED << reactVars, connVars, sessVars, sendVars >>
  \/ ReadLoopStarts /\ UNCHANGED << reactVars, connVars, sessVars, sendVars >>
  \/ \E line \in RevisionLines :
       HandleLineBoth(line) /\ UNCHANGED << reactVars, connVars, sessVars, sendVars >>

SpecRevisions == Init /\ [][NextRevisions]_vars

\* the operator sends commands, with any newline setting, before any
\* connection (no writer) or on a connection while its lines arrive
SendStream == HeaderChunk \o << LF >> \o RowChunk \o << LF >>
Command    == << "m" >>

InitSending ==
  /\ InitFramer
  /\ InitDecoder
  /\ InitReact
  /\ InitSecond
  /\ InitSend
  /\ \/ /\ stream = << >>
        /\ whole = stream
        /\ InitNoConn
     \/ /\ stream = SendStream
        /\ whole = stream
        /\ readerRef = TRUE
        /\ reader = "readable"
        /\ readPos = 0
        /\ loop = "reading"
        /\ InitConnected

NextSend ==
  \/ \E a \in AutoNewlines :
       Send(Command, a) /\ UNCHANGED << reactVars, connVars, sessVars, second >>
  \/ \E i \in 1..MaxSends, ok \in BOOLEAN :
       WriteSettles(i, ok) /\ UNCHANGED << reactVars, connVars, sessVars, second >>
  \/ \E n \in 1..MaxStream :
       Chunk(n) /\ UNCHANGED << reactVars, sessVars, second, sendVars >>
  \/ ReadLine /\ UNCHANGED << reactVars, sessVars, second, sendVars >>

SpecSend == InitSending /\ [][NextSend]_vars

-----------------------------------------------------------------------------
(* Vocabulary of the properties *)

\* the step just taken ran handleLine on `line'
Handled(line) ==
  /\ steps' = steps + 1
  /\ lastOp'.op = "handleLine"
  /\ lastOp'.arg = line

NonBlank(line) == \E i \in DOMAIN line : ~IsSpace(line[i])

\* number of comma-separated tokens of a line
TokenCount(line) == Cardinality({ i \in DOMAIN line : line[i] = "," }) + 1

\* the comma-separated tokens of a line, each trimmed of white space
TrimmedTokens(line) ==
  LET parts == splitCommaFrom(line, 1, << >>)
  IN  [ i \in DOMAIN parts |-> trim(parts[i]) ]

\* only digits, spaces, '.', ',', ':' and '-'
NumericOnly(line) ==
  \A i \in DOMAIN line : line[i] \in Digits \cup {SP, ".", ",", ":", "-"}

\* a cell that stands for "no value": empty, or N/A in any letter case
IsSentinel(cell) ==
  \/ cell = << >>
  \/ /\ Len(cell) = 3
     /\ cell[1] \in {"n", "N"} /\ cell[2] = "/" /\ cell[3] \in {"a", "A"}

\* the last k elements of a sequence
LastK(s, k) == SubSeq(s, Len(s) - k + 1, Len(s))

Min(a, b) == IF a <= b THEN a ELSE b

\* the raw log after one more entry, under its bound
LogAfter(log, entry) ==
  (IF Len(log) < RawLogMax THEN log ELSE Tail(log)) \o << entry >>

\* the fields named in the scenarios
F_ID   == <<"I","D">>
F_TEMP == <<"T","E","M","P">>
F_RH   == <<"R","H">>
F_Time == <<"T","i","m","e">>

-----------------------------------------------------------------------------
(* C1: for any character stream, the lines emitted by the line framer       *)
(* (transform once per chunk, then flush) are the same for every way of     *)
(* splitting the stream into non-empty chunks, a split between the CR and   *)
(* the LF of a CRLF included.  Stated against the split into one chunk.     *)
C1_ChunkingInvariant ==
  closed =>
    enqueued = transformLines(<< >>, whole)
                 \o flushLines(transformRest(<< >>, whole))

(* C2: after Assume Default Header or Set Header has replaced the schema,   *)
(* the snapshot is empty and every sensor's series is empty.                *)
SchemaReplacedByButton ==
  \/ lastOp.op = "assumeDefault"
  \/ lastOp.op = "setHeader" /\ customTokens(lastOp.arg) # << >>

C2_OverrideClearsStores ==
  SchemaReplacedByButton =>
    /\ latest = << >>
    /\ \A key \in DOMAIN series : series[key] = << >>

(* C3: in every reachable state the keys of the snapshot are a subset of    *)
(* the field names of the current schema.                                   *)
C3_SnapshotKeysInSchema ==
  DOMAIN latest \subseteq Range(csvHeader.names)

(* C4: when a decoded row carries "N/A" (any letter case) or an empty       *)
(* value for a field, the snapshot stores null for that field and the       *)
(* series of the sensor matching that field gains a point whose value is    *)
(* null.                                                                    *)
C4_SentinelStoredAsNull ==
  lastOp.parse = "decoded" =>
    LET hdr   == csvHeaderRef.names
        cells == TrimmedTokens(lastOp.arg)
    IN  \A i \in DOMAIN hdr :
          IsSentinel(cells[i]) =>
            /\ latest[hdr[i]] = Null
            /\ \A key \in SensorKeys :
                 matches(metaOf(key), hdr[i]) =>
                   /\ key \in DOMAIN series
                   /\ Last(series[key]).v = Null

(* C5: while the schema is unset, a non-blank line that contains a comma    *)
(* and at least one letter sets the schema to the line's comma-separated,   *)
(* white-space-trimmed tokens, and is not decoded: snapshot and series are  *)
(* unchanged by it.                                                         *)
C5_TextualHeaderSetsSchema ==
  [][ \A line \in Lines :
        ( /\ Handled(line)
          /\ ~csvHeaderRef.set
          /\ NonBlank(line) /\ HasComma(line) /\ HasLetter(line) )
        => /\ csvHeader' = Header(TrimmedTokens(line))
           /\ csvHeaderRef' = csvHeader'
           /\ latest' = latest
           /\ series' = series ]_vars

C5_Witness ==
  /\ lastOp.op = "handleLine"
  /\ lastOp.arg = HeaderLine
  /\ lastOp.detect = "header"
  /\ csvHeader = Header(<< F_ID, F_TEMP, F_RH >>)
  /\ latest = << >>
  /\ series = << >>

(* C6: while the schema is unset, a line made only of digits, spaces, '.',  *)
(* ',', ':' and '-' with exactly 14 comma-separated tokens sets the schema  *)
(* to the built-in default and is decoded in the same step: the snapshot    *)
(* holds a value for every default field and every sensor present in the    *)
(* default schema gains one series point.                                   *)
C6_NumericRowAdoptsDefault ==
  [][ \A line \in Lines :
        ( /\ Handled(line)
          /\ ~csvHeaderRef.set
          /\ NonBlank(line) /\ NumericOnly(line) /\ TokenCount(line) = 14 )
        => /\ csvHeader' = Header(DEFAULT_HEADER)
           /\ csvHeaderRef' = csvHeader'
           /\ Range(DEFAULT_HEADER) \subseteq DOMAIN latest'
           /\ DOMAIN series' = presentKeys(DEFAULT_HEADER)
           /\ \A key \in presentKeys(DEFAULT_HEADER) :
                Len(series'[key]) = Len(IF key \in DOMAIN series
                                          THEN series[key] ELSE << >>) + 1 ]_vars

C6_Witness ==
  /\ lastOp.arg = DefaultRow
  /\ lastOp.detect = "default"
  /\ lastOp.parse = "decoded"
  /\ csvHeader = Header(DEFAULT_HEADER)
  /\ latest[F_Time] = Str(<<"0","3",":","0","4">>)
  /\ Cardinality(DOMAIN series) = 9
  /\ series["TEMP"] = << [t |-> Instant(20090, 11040000), v |-> Num(<<"8">>)] >>

(* C7: while the schema is unset, a non-blank line that is neither a        *)
(* textual header nor a 14-token numeric row leaves the schema unset and    *)
(* snapshot and series unchanged, yet is appended to the raw log; this      *)
(* holds for any number of such lines in a row.                             *)
C7_OtherLinesDiscarded ==
  [][ \A line \in Lines :
        ( /\ Handled(line)
          /\ ~csvHeaderRef.set
          /\ NonBlank(line)
          /\ ~(HasComma(line) /\ HasLetter(line))
          /\ ~(NumericOnly(trim(line)) /\ TokenCount(line) = 14) )
        => /\ csvHeader' = Unset
           /\ csvHeaderRef' = Unset
           /\ latest' = latest
           /\ series' = series
           /\ rawLog' = LogAfter(rawLog, trim(line)) ]_vars

C7_Witness ==
  /\ lastOp.detect = "discarded"
  /\ csvHeader = Unset
  /\ rawLog = << trim(ShortLine), trim(NoCommaLine) >>
  /\ steps > RawLogMax
  /\ latest = << >>
  /\ series = << >>

(* C8: with the schema set, a line whose comma-separated token count        *)
(* differs from the schema length is rejected with no store mutation:       *)
(* schema, snapshot and every series are the same before and after the      *)
(* line, so every later line decodes exactly as it would have without it.   *)
C8_ArityMismatchRejected ==
  [][ \A line \in Lines :
        ( /\ Handled(line)
          /\ csvHeaderRef.set
          /\ NonBlank(line)
          /\ TokenCount(line) # Len(csvHeaderRef.names) )
        => /\ lastOp'.parse \in {"rejected", "ignored"}
           /\ csvHeader' = csvHeader
           /\ csvHeaderRef' = csvHeaderRef
           /\ latest' = latest
           /\ series' = series
           /\ \A later \in Lines :
                parseBranch(csvHeaderRef'.names, trim(later))
                  = parseBranch(csvHeaderRef.names, trim(later)) ]_vars

C8_Witness ==
  /\ csvHeader = Header(<< F_ID, F_TEMP, F_RH >>)
  /\ rawLog = << trim(ShortLine), trim(RowLine) >>
  /\ lastOp.arg = RowLine
  /\ lastOp.parse = "decoded"
  /\ latest[F_TEMP] = Num(<<"2","1",".","5">>)
  /\ Len(series["TEMP"]) = 1

(* C9: for every schema reachable by header detection, default adoption or  *)
(* Set Header (length k >= 1, a one-field custom schema and a schema with   *)
(* a repeated field name included), a line that tokenizes into exactly k    *)
(* tokens is decoded, and the decoded field map has exactly k entries.      *)
C9_ExactArityDecodes ==
  ( /\ lastOp.op = "handleLine"
    /\ lastOp.detect \in {"none", "default"}
    /\ NonBlank(lastOp.arg)
    /\ TokenCount(lastOp.arg) = Len(csvHeaderRef.names) )
  => /\ lastOp.parse = "decoded"
     /\ Cardinality(DOMAIN buildRow(csvHeaderRef.names,
                                    splitCells(trim(lastOp.arg))))
          = Len(csvHeaderRef.names)

(* C10: after any number of decoded rows the series of every sensor has at  *)
(* most maxPoints points, and they are exactly the points of the most       *)
(* recent min(n, maxPoints) rows decoded for that sensor, in arrival order  *)
(* (n the number of rows decoded for it): the oldest point is the one       *)
(* evicted.                                                                 *)
C10_SeriesKeepsMostRecent ==
  /\ DOMAIN series = DOMAIN appended
  /\ \A key \in DOMAIN series :
       /\ Len(series[key]) <= maxPoints
       /\ series[key] = LastK(appended[key], Min(Len(appended[key]), maxPoints))

C10_Witness ==
  \E key \in DOMAIN series :
    /\ Len(appended[key]) > maxPoints
    /\ Len(series[key]) = maxPoints
    /\ appended[key][1] # appended[key][Len(appended[key])]
    /\ series[key][1] # series[key][Len(series[key])]

\* the queued updaters applied to the hook states give the states the
\* handlers computed
QueueAgrees ==
  LET s == applyUpdates(base, queue)
  IN  /\ s.csvHeader = csvHeader
      /\ s.latest = latest
      /\ s.series = series
      /\ s.rawLog = rawLog

\* the step just taken was a click on a header button that replaced the
\* schema by `names'
Overrode(names) ==
  /\ steps' = steps + 1
  /\ \/ lastOp'.op = "assumeDefault" /\ names = DEFAULT_HEADER
     \/ /\ lastOp'.op = "setHeader"
        /\ names = filterNonEmpty(TrimmedTokens(lastOp'.arg))
        /\ names # << >>

(* C11: the effect of a decoded row is atomic for the renders of the        *)
(* component: no render sees a snapshot that reflects a row while the       *)
(* series do not contain that row's points yet, or the reverse.             *)
C11_RowAtomicForRenders ==
  /\ view.latestRow = view.seriesRow
  /\ view.latestRow # 0 =>
       \E q \in { SubSeq(queue, 1, n) : n \in 0..Len(queue) } :
         /\ applyUpdates(base, q).latest = view.latest
         /\ applyUpdates(base, q).series = view.series

C11_Witness ==
  /\ view.latestRow # 0
  /\ view.latest[F_TEMP] = Num(<<"2","1",".","5">>)
  /\ Len(view.series["TEMP"]) = 1
  /\ \E i \in DOMAIN queue : queue[i].cell = "latest"
  /\ Len(series["TEMP"]) = 2

(* C12: a click on a header button takes effect before the next line is     *)
(* handled: the click leaves the overriding schema in csvHeaderRef, no      *)
(* later step other than a click changes a schema that is set (the effect   *)
(* that copies csvHeader to the ref never brings an earlier schema back),   *)
(* and every line handled while a schema is set is classified and decoded   *)
(* against the schema in csvHeaderRef.                                      *)
C12_OverrideBeforeNextLine ==
  [][ /\ Overrode(DEFAULT_HEADER) => csvHeaderRef' = Header(DEFAULT_HEADER)
      /\ \A text \in ReactTexts :
           Overrode(filterNonEmpty(TrimmedTokens(text)))
             => csvHeaderRef' = Header(filterNonEmpty(TrimmedTokens(text)))
      /\ ( /\ csvHeaderRef.set
           /\ ~(steps' = steps + 1
                  /\ lastOp'.op \in {"assumeDefault", "setHeader"}) )
         => csvHeaderRef' = csvHeaderRef
      /\ \A line \in ReactLines :
           (Handled(line) /\ csvHeaderRef.set /\ NonBlank(line))
             => /\ lastOp'.detect = "none"
                /\ lastOp'.parse
                     = (IF ~HasComma(line) THEN "ignored"
                        ELSE IF TokenCount(line) # Len(csvHeaderRef.names)
                          THEN "rejected"
                        ELSE "decoded") ]_vars

C12_Witness ==
  /\ effect.reverted
  /\ lastOp.op = "handleLine"
  /\ lastOp.arg = RowLine
  /\ lastOp.detect = "none"
  /\ lastOp.parse = "rejected"
  /\ csvHeaderRef = Header(DEFAULT_HEADER)

\* the lines readLoop has handed to handleLine
linesHandled == SubSeq(enqueued, 1, readPos)

(* C13: when the stream terminates, by the transport closing or by the      *)
(* operator disconnecting, a non-empty partial line still buffered by the   *)
(* line framer is emitted once and handled by handleLine before the read    *)
(* loop ends.                                                               *)
C13_PartialLineHandledAtEnd ==
  (loop = "done" /\ container # << >>) =>
    /\ closed
    /\ readPos = Len(enqueued)
    /\ Last(linesHandled) = container

\* the stream with every terminator (CRLF, CR or LF, the CR LF pair taken as
\* one CRLF) replaced by a single LF
RECURSIVE allLF(_)
allLF(s) ==
  IF s = << >> THEN << >>
  ELSE IF Len(s) >= 2 /\ s[1] = CR /\ s[2] = LF
         THEN << LF >> \o allLF(SubSeq(s, 3, Len(s)))
  ELSE IF s[1] \in {CR, LF}
         THEN << LF >> \o allLF(Tail(s))
  ELSE << s[1] >> \o allLF(Tail(s))

\* the lines an LF-only stream consists of, the text after the last LF
\* included when it is not empty
RECURSIVE linesOfLF(_, _)
linesOfLF(s, cur) ==
  IF s = << >> THEN (IF cur # << >> THEN << cur >> ELSE << >>)
  ELSE IF s[1] = LF THEN << cur >> \o linesOfLF(Tail(s), << >>)
  ELSE linesOfLF(Tail(s), Append(cur, s[1]))

(* C14: for a stream whose lines are ended by LF, CR and CRLF in any         *)
(* mixture, the line framer emits the same lines as for the stream in which  *)
(* every terminator is replaced by a single LF.                              *)
C14_TerminatorsInterchangeable ==
  closed => enqueued = linesOfLF(allLF(whole), << >>)

\* the same, for the stream delivered in one chunk
OneChunkTerminatorsInterchangeable ==
  transformLines(<< >>, whole) \o flushLines(transformRest(<< >>, whole))
    = linesOfLF(allLF(whole), << >>)

\* positions of the fields of hdr whose name is `name' in some letter case
FieldsNamed(hdr, name) ==
  { i \in DOMAIN hdr : toUpperCaseStr(hdr[i]) = name }

\* the decoded row the last step handled: its header and its trimmed cells
LastHdr   == csvHeaderRef.names
LastCells == TrimmedTokens(lastOp.arg)

(* C15: the timestamp resolver finds the date and time fields whatever the   *)
(* letter case of their names ("date" and "time" included): a row whose date *)
(* and time fields are both non-empty and parse gets the device instant as   *)
(* the timestamp of its series points.                                       *)
C15_DateTimeAnyCase ==
  lastOp.parse = "decoded" =>
    \A i \in FieldsNamed(LastHdr, <<"D","A","T","E">>) :
      \A j \in FieldsNamed(LastHdr, <<"T","I","M","E">>) :
        LET device == DateGetTime(LastCells[i] \o << "T" >> \o LastCells[j])
        IN  (LastCells[i] # << >> /\ LastCells[j] # << >> /\ device.ok)
              => \A key \in presentKeys(LastHdr) :
                   Last(series[key]).t = device.ms

\* the cell of the last field of hdr named exactly `name', empty if none
CellNamed(hdr, cells, name) ==
  LET at == { i \in DOMAIN hdr : hdr[i] = name }
  IN  IF at = {} THEN << >>
      ELSE cells[CHOOSE i \in at : \A j \in at : j <= i]

\* a whole number of milliseconds: whole days and a time of day
ValidInstant(t) ==
  /\ t # NaN
  /\ t[1] \in Int
  /\ t[2] \in 0..(24 * 60 * 60 * 1000 - 1)

NonNumericText(cell) ==
  /\ cell # << >>
  /\ ~IsSentinel(cell)
  /\ Number(cell).kind = "nan"

\* position i is the last field of hdr with its name
LastOfName(hdr, i) == \A j \in DOMAIN hdr : hdr[j] = hdr[i] => j <= i

(* C18: a field value that is not empty, not "N/A" and not parseable as a    *)
(* number never fails the row: the other fields of the row are stored, the   *)
(* snapshot keeps the original trimmed text for the field, and the series    *)
(* of the sensor matching the field gains a point whose value is null.       *)
C18_TextValueKept ==
  lastOp.parse = "decoded" =>
    \A i \in DOMAIN LastHdr :
      (NonNumericText(LastCells[i]) /\ LastOfName(LastHdr, i)) =>
        /\ latest[LastHdr[i]] = Str(LastCells[i])
        /\ \A j \in DOMAIN LastHdr :
             /\ LastHdr[j] \in DOMAIN latest
             /\ ( /\ LastOfName(LastHdr, j)
                  /\ parseMaybeNumber(LastCells[j]) # Null )
                => latest[LastHdr[j]] = parseMaybeNumber(LastCells[j])
        /\ \A key \in presentKeys(LastHdr) :
             /\ Last(series[key]) = Last(appended[key])
             /\ matchingHeader(metaOf(key), LastHdr) = i
                  => Last(series[key]).v = Null

C18_Witness ==
  /\ lastOp.arg = BadDateRow
  /\ lastOp.parse = "decoded"
  /\ csvHeader = Header(TrimmedTokens(LowerHeader))
  /\ latest[F_TEMP] = Str(<<"h","o","t">>)
  /\ latest[<<"t","i","m","e">>] = Str(<<"0","3",":","0","4">>)
  /\ Last(series["TEMP"]).v = Null
  /\ Len(series["TEMP"]) = 2
  /\ series["TEMP"][1].v = Num(<<"2","1",".","5">>)

\* the step just taken was a click on a header button
ButtonStep ==
  /\ steps' = steps + 1
  /\ lastOp'.op \in {"assumeDefault", "setHeader"}

(* C17: once the schema is set, ingesting lines never changes it and never   *)
(* returns it to unset: a textual header line or a 14-token numeric line     *)
(* that arrives after that is treated only as a data row, and the schema     *)
(* changes only through Assume Default Header or Set Header.                 *)
C17_SchemaOnlyChangedByButtons ==
  [][ /\ csvHeader.set => csvHeader'.set
      /\ (csvHeader.set /\ csvHeader' # csvHeader) => ButtonStep
      /\ \A line \in Lines :
           (Handled(line) /\ csvHeader.set)
             => /\ csvHeader' = csvHeader
                /\ csvHeaderRef' = csvHeaderRef
                /\ NonBlank(line) =>
                     /\ lastOp'.detect = "none"
                     /\ lastOp'.parse
                          = (IF ~HasComma(line) THEN "ignored"
                             ELSE IF TokenCount(line) # Len(csvHeader.names)
                               THEN "rejected"
                             ELSE "decoded") ]_vars

C17_Witness ==
  /\ lastOp.arg = HeaderLine
  /\ lastOp.detect = "none"
  /\ lastOp.parse = "decoded"
  /\ csvHeader = Header(<< F_ID, F_TEMP, F_RH >>)
  /\ latest[F_TEMP] = Str(F_TEMP)
  /\ rawLog = << trim(DefaultRow), trim(HeaderLine) >>

C20_ReadFailureKeepsStores ==
  [][ /\ (reader = "errored" /\ loop = "reading" /\ loop' # loop)
         => /\ loop' = "failed"
            /\ csvHeader' = csvHeader
            /\ csvHeaderRef' = csvHeaderRef
            /\ latest' = latest
            /\ series' = series
            /\ rawLog' = LogAfter(rawLog, ReadErrorNotice)
      /\ loop = "failed"
         => /\ loop' = "failed"
            /\ readPos' = readPos
            /\ latest' = latest
            /\ series' = series
            /\ ~ButtonStep => csvHeader' = csvHeader
            /\ rawLog' # rawLog
                 => (ButtonStep \/ lastOp'.op = "clearLog") ]_vars

C20_Witness ==
  /\ loop = "failed"
  /\ lastOp.op = "readError"
  /\ readPos = 2
  /\ Len(enqueued) > readPos
  /\ csvHeader = Header(<< F_RH, <<"a">> >>)
  /\ latest[F_RH] = Num(<<"1">>)
  /\ Len(series["RH"]) = 1
  /\ rawLog = << RowChunk, ReadErrorNotice >>

\* positions of the fields of hdr the rule of sensor `key' matches
FieldsMatching(key, hdr) ==
  { i \in DOMAIN hdr : matches(metaOf(key), hdr[i]) }

\* the smallest member of a non-empty set of positions
First(S) == CHOOSE i \in S : \A j \in S : i <= j

\* every point ever appended for a sensor, none if it never had one
AppendedOf(hist, key) == IF key \in DOMAIN hist THEN hist[key] ELSE << >>

(* C21: on every decoded row, each sensor rule that matches at least one     *)
(* schema field gains exactly one series point, whose value is the coerced   *)
(* value of the first matching field in schema order; all points appended    *)
(* for one row carry the same timestamp; a sensor rule that matches no       *)
(* schema field gains no point.                                              *)
C21_FirstMatchingFieldWins ==
  [][ \A line \in Lines :
        (Handled(line) /\ lastOp'.parse = "decoded") =>
          LET hdr   == csvHeaderRef'.names
              cells == TrimmedTokens(line)
          IN  \A key \in SensorKeys :
                IF FieldsMatching(key, hdr) = {}
                  THEN AppendedOf(appended', key) = AppendedOf(appended, key)
                  ELSE /\ Len(appended'[key])
                            = Len(AppendedOf(appended, key)) + 1
                       /\ Front(appended'[key]) = AppendedOf(appended, key)
                       /\ Last(appended'[key]) = Last(series'[key])
                       /\ Last(appended'[key]).v
                            = parseMaybeNumber(cells[First(FieldsMatching(key, hdr))])
                       /\ \A other \in SensorKeys :
                            FieldsMatching(other, hdr) # {} =>
                              Last(appended'[other]).t = Last(appended'[key]).t
    ]_vars

\* the coerced value of a cell: null for an empty or N/A cell, the number
\* for a numeric cell, the text itself otherwise
Coerced(cell) ==
  IF IsSentinel(cell) THEN Null
  ELSE IF Number(cell).kind = "finite" THEN Num(Number(cell).d)
  ELSE IF Number(cell).kind = "infinite" THEN Null
  ELSE Str(cell)

(* C22: the snapshot is last-write-wins per field: after a row is decoded,   *)
(* the snapshot value of every field of the current schema is the coerced    *)
(* value taken from that row, and no field of the current schema keeps a     *)
(* value from an earlier row.                                                *)
C22_SnapshotLastWriteWins ==
  lastOp.parse = "decoded" =>
    \A i \in DOMAIN LastHdr :
      /\ LastHdr[i] \in DOMAIN latest
      /\ latest[LastHdr[i]] = Coerced(LastCells[i])

\* the same, with an empty or N/A cell stored as its text and a repeated
\* field name taking the cell of its last position
RowOverwritesSnapshot ==
  lastOp.parse = "decoded" =>
    \A i \in DOMAIN LastHdr :
      LastOfName(LastHdr, i) =>
        /\ LastHdr[i] \in DOMAIN latest
        /\ latest[LastHdr[i]] = IF IsSentinel(LastCells[i])
                                  THEN Str(LastCells[i])
                                  ELSE Coerced(LastCells[i])

(* C23: every non-blank line passed to handleLine is appended to the raw     *)
(* log exactly once, whatever the schema state and whether the line is       *)
(* taken as a header, decoded, rejected for its arity or discarded; the      *)
(* entry goes to the end of the log, so ingested lines appear in arrival     *)
(* order.                                                                    *)
C23_EveryLineLoggedOnce ==
  [][ \A line \in Lines :
        Handled(line) =>
          IF NonBlank(line)
            THEN /\ rawLog' = LogAfter(rawLog, trim(line))
                 /\ lastOp'.detect \in {"header", "default", "discarded", "none"}
                 /\ lastOp'.parse \in {"none", "ignored", "rejected", "decoded"}
            ELSE rawLog' = rawLog ]_vars

C23_Witness ==
  /\ steps = 4
  /\ lastOp.op = "handleLine"
  /\ lastOp.arg = RowLineNA
  /\ lastOp.parse = "decoded"
  /\ csvHeader = Header(<< F_ID, F_TEMP, F_RH >>)
  /\ rawLog = LastK(<< trim(NoCommaLine), trim(HeaderLine),
                       trim(ShortLine), trim(RowLineNA) >>, RawLogMax)

\* the lines of the streams of ConnStreams
ConnLines == { HeaderChunk, RowChunk, PartialRow, << >> }

(* C24: lines are processed strictly in arrival order and one at a time:     *)
(* each step of the read loop handles the oldest line the framer emitted     *)
(* that has not been handled yet, and handles it completely, so the points   *)
(* of each series and the snapshot follow the order in which the framer      *)
(* emitted the rows.                                                         *)
C24_LinesHandledInOrder ==
  [][ /\ readPos' \in {readPos, readPos + 1}
      /\ readPos' = readPos + 1
           => /\ readPos < Len(enqueued)
              /\ Handled(enqueued[readPos + 1])
      /\ \A line \in ConnLines :
           Handled(line) =>
             /\ readPos' = readPos + 1
             /\ line = enqueued[readPos + 1]
             /\ lastOp'.parse = "decoded" =>
                  /\ \A i \in DOMAIN csvHeaderRef'.names :
                       csvHeaderRef'.names[i] \in DOMAIN latest'
                  /\ \A key \in presentKeys(csvHeaderRef'.names) :
                       /\ Front(appended'[key]) = AppendedOf(appended, key)
                       /\ Last(appended'[key]).v
                            = parseMaybeNumber(TrimmedTokens(line)[
                                First(FieldsMatching(key, csvHeaderRef'.names))])
    ]_vars

C24_Witness ==
  /\ loop = "done"
  /\ closed
  /\ readPos = 3
  /\ linesHandled = << HeaderChunk, RowChunk, PartialRow >>
  /\ csvHeader = Header(<< F_RH, <<"a">> >>)
  /\ latest[F_RH] = Num(<<"3">>)
  /\ latest[<<"a">>] = Num(<<"4">>)
  /\ Len(appended["RH"]) = 2
  /\ appended["RH"][1].v = Num(<<"1">>)
  /\ appended["RH"][2].v = Num(<<"3">>)

\* the characters of s that are not line terminators, in order
RECURSIVE withoutTerminators(_)
withoutTerminators(s) ==
  IF s = << >> THEN << >>
  ELSE IF s[1] \in {CR, LF} THEN withoutTerminators(Tail(s))
  ELSE << s[1] >> \o withoutTerminators(Tail(s))

\* the lines of a sequence put end to end
RECURSIVE joined(_)
joined(lines) ==
  IF lines = << >> THEN << >> ELSE Head(lines) \o joined(Tail(lines))

\* the characters the transport has delivered so far
received == SubSeq(whole, 1, Len(whole) - Len(stream))

valuesOf(ser) ==
  [ key \in DOMAIN ser |-> [ i \in DOMAIN ser[key] |-> ser[key][i].v ] ]

\* handleLine run over a sequence of lines, one after the other, from the
\* header reference ref and the hook states s
RECURSIVE ingestAll(_, _, _)
ingestAll(ref, s, lines) ==
  IF lines = << >> THEN s
  ELSE LET line    == Head(lines)
           trimmed == trim(line)
           nextRef == IF isBlank(trimmed) THEN ref
                      ELSE detectHeader(ref, trimmed).ref
       IN  ingestAll(nextRef,
                     applyUpdates(s, callsOfHandleLine(ref, line,
                                                       Instant(0, 0), 1)),
                     Tail(lines))

\* the whole stream delivered as one chunk, framed and handled
OneChunkResult ==
  ingestAll(Unset, HookStates(Unset, << >>, << >>, << >>),
            transformLines(<< >>, whole)
              \o flushLines(transformRest(<< >>, whole)))

(* C26: for any stream and any two ways of splitting it into chunks, the    *)
(* framer and handleLine run over the whole stream give the same Raw Log,   *)
(* the same Schema, the same Snapshot and the same Series values.  Stated   *)
(* against the split into one chunk: when the read loop has handled the     *)
(* whole stream, the stores are those of the one-chunk run.                 *)
C26_ChunkingLeavesResults ==
  loop = "done" =>
    /\ rawLog = OneChunkResult.rawLog
    /\ csvHeader = OneChunkResult.csvHeader
    /\ latest = OneChunkResult.latest
    /\ valuesOf(series) = valuesOf(OneChunkResult.series)

\* a CRLF was split between two chunks, the framer emitted an empty line
\* for it, and the whole stream was handled
C26_Witness ==
  /\ loop = "done"
  /\ enqueued = << HeaderChunk, << >>, SpaceLine, RowChunk >>
  /\ rawLog = << HeaderChunk, RowChunk >>
  /\ latest[F_RH] = Num(<< "1" >>)

\* the trimmed tokens of a text that are not empty, in their order
NonEmptyTokens(text) ==
  LET toks   == TrimmedTokens(text)
      keep   == { i \in DOMAIN toks : toks[i] # << >> }
      nth(k) == CHOOSE i \in keep : Cardinality({ j \in keep : j < i }) = k - 1
  IN  [ k \in 1..Cardinality(keep) |-> toks[nth(k)] ]

(* C27: Set Header with a text that yields no non-empty token (empty text,  *)
(* or only commas and white space) leaves Schema, Snapshot, Series and Raw  *)
(* Log unchanged; with at least one non-empty token the Schema becomes      *)
(* exactly the non-empty trimmed tokens, in order.                          *)
C27_SetHeaderTokens ==
  [][ (steps' = steps + 1 /\ lastOp'.op = "setHeader") =>
        LET tokens == NonEmptyTokens(lastOp'.arg)
        IN  IF tokens = << >>
              THEN UNCHANGED << csvHeaderRef, csvHeader, latest, series, rawLog >>
              ELSE /\ csvHeader' = Header(tokens)
                   /\ csvHeaderRef' = Header(tokens) ]_vars

\* Set Header with only a comma and spaces, pressed after a detected header
\* and a decoded row: the stores are as the row left them
C27_Witness ==
  /\ lastOp.op = "setHeader"
  /\ lastOp.arg = NoTokenText
  /\ csvHeader = Header(<< F_ID, F_TEMP, F_RH >>)
  /\ F_TEMP \in DOMAIN latest
  /\ rawLog = << HeaderLine, RowLine >>

\* a call of disconnect() returns in this step
DisconnectReturns == finished' = finished + 1

(* C28: when disconnect() returns, called by the operator or by a failed    *)
(* connect, and whether the cancel and the closes resolved or rejected, the *)
(* reader, writer and port references are all null and isConnected is       *)
(* false; the reader is cancelled before the writer is closed, and the      *)
(* writer before the port: no close of the writer is called while a reader  *)
(* is referenced, and none of the port while a reader or a writer is.       *)
C28_DisconnectReleasesAll ==
  [][ /\ DisconnectReturns =>
           /\ ~readerRef' /\ ~writerRef' /\ ~portRef'
           /\ ~isConnected'
      /\ order' = Append(order, "closeWriter") => ~readerRef'
      /\ order' = Append(order, "closePort") => ~readerRef' /\ ~writerRef'
    ]_vars

\* connect() fails in this step: its catch block runs
ConnectFailsNow == connectPc = "open" /\ connectPc' = "idle" /\ ~isConnected'

\* connect() succeeds in this step: a connection starts
ConnectionStarts == connectPc = "open" /\ connectPc' = "idle" /\ isConnected'

\* a step of disconnect(), or of a connect() that does not fail
SessionStep == sessVars' # sessVars /\ ~ConnectFailsNow

(* C29: Disconnect and a later connect leave Schema, Snapshot, Series and   *)
(* Raw Log unchanged, and each connection starts with an empty framer       *)
(* buffer: what the framer of a connection has emitted and holds is made of *)
(* the characters that connection has received, and of nothing a connection *)
(* before has left.                                                         *)
C29_ReconnectKeepsStoresFreshFramer ==
  [][ /\ SessionStep =>
           UNCHANGED << csvHeaderRef, csvHeader, latest, series, rawLog >>
      /\ ConnectionStarts => container' = << >> /\ enqueued' = << >>
      /\ (reader' = "readable" /\ ~closed') =>
           joined(enqueued') \o container'
             = withoutTerminators(SubSeq(whole', 1, Len(whole') - Len(stream')))
    ]_vars

\* a second connection, after a first one that decoded a row: the stores
\* are as the first left them, and the first line of the second is the
\* header line as sent
C29_Witness ==
  /\ isConnected
  /\ finished = 1
  /\ clicks = 3
  /\ reader = "readable"
  /\ enqueued = << HeaderChunk >>
  /\ readPos = 0
  /\ rawLog = << HeaderChunk, RowChunk >>
  /\ latest[F_RH] = Num(<< "1" >>)

(* C30: whenever the read loop has ended, by end of stream or by a read     *)
(* error, isConnected eventually becomes false without an operator action.  *)
C30_LoopEndClearsIndicator ==
  (loop \in {"done", "failed"}) ~> ~isConnected

(* C31: the two revisions of handleLine give the same Schema, Snapshot and  *)
(* Series for every sequence of lines handled by one read loop.             *)
C31_RevisionsAgree ==
  second.started =>
    /\ second.header = csvHeader
    /\ second.latest = latest
    /\ second.series = series

\* the second revision is not without effect: with a header set before the
\* connection, the row it decodes is stored as the first revision stores it
SecondRevisionDecodes ==
  /\ second.started
  /\ second.latest # << >>
  /\ second.latest = latest
  /\ second.series = series

\* send() is called in this step
SendCalled == Len(sent') = Len(sent) + 1

\* a write settles in this step
WriteSettled == pending' # pending /\ ~SendCalled

(* C32: send with no writer is a no-op (no Raw Log entry, sending flag      *)
(* untouched); otherwise it writes the text followed by the configured      *)
(* newline exactly once, appends exactly one Raw Log entry (the command     *)
(* echo on success, a write-error notice on failure), never changes Schema, *)
(* Snapshot or Series, and the sending flag is false again once the write   *)
(* has settled.                                                             *)
C32_SendWritesOnceLogsOnce ==
  [][ /\ SendCalled =>
           LET call == sent'[Len(sent')]
               nl   == CASE call.autoNewline = "none" -> << >>
                         [] call.autoNewline = "cr"   -> << CR >>
                         [] call.autoNewline = "lf"   -> << LF >>
                         [] call.autoNewline = "crlf" -> << CR, LF >>
           IN  /\ UNCHANGED << rawLog, csvHeaderRef, csvHeader, latest, series >>
               /\ IF ~writerRef
                    THEN UNCHANGED << sending, written, pending >>
                    ELSE /\ written' = Append(written, call.text \o nl)
                         /\ pending' = pending \cup { Len(written') }
                         /\ Len(written') \notin pending
      /\ WriteSettled =>
           \E i \in pending :
             /\ pending' = pending \ { i }
             /\ ~sending'
             /\ \/ rawLog' = pushLog(rawLog, echoOf(written[i]))
                \/ rawLog' = pushLog(rawLog, WriteErrorNotice)
             /\ UNCHANGED << csvHeaderRef, csvHeader, latest, series >>
      /\ written' # written => SendCalled /\ writerRef
      /\ (sending' # sending \/ pending' # pending) => SendCalled \/ WriteSettled
    ]_vars

\* a command sent with CR after a decoded row, its write resolved: the echo
\* is the newest raw log entry, the payload was written once, sending is
\* false and the stores are as the row left them
C32_Witness ==
  /\ written = << << "m", CR >> >>
  /\ pending = { }
  /\ ~sending
  /\ Len(sent) = 1
  /\ F_RH \in DOMAIN latest
  /\ latest[F_RH] = Num(<< "1" >>)
  /\ rawLog # << >>
  /\ rawLog[Len(rawLog)] = << "-", ">", " ", "\"", "m", "\\", "r", "\"" >>

=============================================================================
